---- MODULE Spec2Model ----
(***************************************************************************)
(* Patient registration and identity resolution of the healthcare backend: *)
(* PatientService (app/services/patient_service.py), its helpers           *)
(* (app/helpers/patient_helper.py) and the patient routes of               *)
(* app/api/patients.py and app/api/healthcare.py, over the MongoDB         *)
(* collections `patients` and `counters`.                                  *)
(*                                                                         *)
(* Python strings are sequences of one-character strings, so that strip(), *)
(* lower(), re.sub() and the $regex filters are computed character by      *)
(* character.  Every storage round trip is one atomic step; a storage      *)
(* round trip may raise.                                                   *)
(***************************************************************************)
EXTENDS Integers, Sequences, FiniteSets, TLC

VARIABLES
    patients,   \* db.patients, in insertion order
    assigned,   \* assigned[i]: the patient_id patients[i] was inserted with
    counters,   \* db.counters: day -> sequence, one document per day used
    issued,     \* the <<day, sequence>> pairs the atomic counter has returned
    now,        \* the wall clock: [day, sec]
    pc,         \* pc[p]: where request worker p is inside create_patient
    call,       \* call[p]: the locals of worker p's create_patient call
    returned,   \* the response of the create_patient call that returned last
    lastFind,   \* the lookup answered last against the store as it stands
    appointments, \* db.appointments, in insertion order
    history,    \* db.appointment_history, in insertion order
    apc,        \* apc[p]: where worker p is inside an appointment, callback
                \* or password route
    acall,      \* acall[p]: the locals of worker p's request to such a route
    response,   \* the HTTP response of the route that answered last
    pushed,     \* the appointments lists of db.patients: the references
                \* pushed, as [patient_id, appointment_id], in push order
    callbacks,  \* db.healthcare_callbacks, in insertion order; the position of
                \* a document stands for its _id
    tasks,      \* the background tasks added and not run yet: callback ids
    launched,   \* the callback ids handed to background_tasks.add_task, in order
    clock,      \* datetime.now(timezone.utc) of the callback and password
                \* routes, in minutes
    users,      \* db.users: email -> stored password hash
    reset_otp_store \* reset_otp_store of app/api/auth.py: email -> entry

vars == <<patients, assigned, counters, issued, now, pc, call, returned, lastFind,
          appointments, history, apc, acall, response, pushed,
          callbacks, tasks, launched, clock, users, reset_otp_store>>

\* what the patient registry leaves alone
bookingVars == <<appointments, history, apc, acall, response, pushed>>

\* what neither the patient registry nor the appointment routes touch
deskVars == <<callbacks, tasks, launched, clock, users, reset_otp_store>>

\* what the appointment routes leave alone
registryVars == <<assigned, counters, issued, now, pc, call, returned, lastFind>>

----------------------------------------------------------------------------
(* Bounds of the model *)

MaxPatients == 2    \* documents db.patients may hold
MaxDay == 1         \* calendar days after the first one
MaxSec == 1         \* seconds after midnight the clock may show
MaxSeq == 2         \* values a day's counter may reach

Procs == {1, 2}     \* request workers running create_patient concurrently

\* Python's None where a document is expected, and where a string is expected
None == [is_none |-> TRUE]
NoneStr == <<"None">>

----------------------------------------------------------------------------
(* Python string operations *)

Digits == {"0", "1", "2", "3", "4", "5", "6", "7", "8", "9"}

Whitespace == {" ", "\t", "\n"}

UpperCase == <<"A", "B", "C", "D", "E", "F", "G", "H", "I", "J", "K", "L", "M",
               "N", "O", "P", "Q", "R", "S", "T", "U", "V", "W", "X", "Y", "Z">>

LowerCase == <<"a", "b", "c", "d", "e", "f", "g", "h", "i", "j", "k", "l", "m",
               "n", "o", "p", "q", "r", "s", "t", "u", "v", "w", "x", "y", "z">>

\* str.lower() on one character
char_lower(c) ==
    IF \E i \in 1..Len(UpperCase) : UpperCase[i] = c
    THEN LowerCase[CHOOSE i \in 1..Len(UpperCase) : UpperCase[i] = c]
    ELSE c

\* str.lower()
lower(s) == [i \in 1..Len(s) |-> char_lower(s[i])]

\* str.strip(): drops leading and trailing whitespace
strip(s) ==
    LET keep == {i \in 1..Len(s) : s[i] \notin Whitespace}
    IN  IF keep = {} THEN <<>>
        ELSE LET lo == CHOOSE i \in keep : \A j \in keep : i <= j
                 hi == CHOOSE i \in keep : \A j \in keep : j <= i
             IN  SubSeq(s, lo, hi)

\* a Python value is truthy: neither None nor the empty string
truthy(s) == s # NoneStr /\ s # <<>>

IsDigitOrPlus(c) == c \in Digits \cup {"+"}

\* re.sub(r'[^\d+]', '', phone)
digits_and_plus(phone) == SelectSeq(phone, IsDigitOrPlus)

\* s[-n:]
last_chars(s, n) == IF Len(s) <= n THEN s ELSE SubSeq(s, Len(s) - n + 1, Len(s))

\* str.endswith
endswith(s, suffix) ==
    Len(suffix) <= Len(s) /\ SubSeq(s, Len(s) - Len(suffix) + 1, Len(s)) = suffix

\* str(n) for n >= 0
RECURSIVE str_int(_)
str_int(n) ==
    LET d == <<"0", "1", "2", "3", "4", "5", "6", "7", "8", "9">>[(n % 10) + 1]
    IN  IF n < 10 THEN <<d>> ELSE str_int(n \div 10) \o <<d>>

\* str.zfill(width)
RECURSIVE zfill(_, _)
zfill(s, width) == IF Len(s) >= width THEN s ELSE zfill(<<"0">> \o s, width)

----------------------------------------------------------------------------
(* app/helpers/patient_helper.py *)

MinContactLen == 10     \* a contact number needs this many characters
MinLocalityLen == 5     \* a locality needs this many characters
MinNameLen == 2         \* PatientCreate.fullName min_length
MaxNameLen == 100       \* PatientCreate.fullName max_length
SeqWidth == 3           \* zfill width of the daily sequence number

valid_genders == {"Male", "Female", "Other"}

\* datetime.strptime(d, '%d-%m-%Y') succeeds and the date is neither in the
\* future nor more than 150 years back: the dates of birth of the model that
\* parse.  A date of birth is an opaque string everywhere else in the code.
ParsableDates == {"01-02-1990", "15-08-1985"}

\* sanitize_phone_number
sanitize_phone_number(phone) ==
    IF ~truthy(phone) THEN <<>>
    ELSE LET cleaned == digits_and_plus(phone)
         IN  IF (cleaned = <<>> \/ cleaned[1] # "+") /\ Len(cleaned) = 10
             THEN <<"+", "9", "1">> \o cleaned
             ELSE cleaned

\* str.replace('+', '').replace('-', '').replace(' ', '')
IsNotPhonePunct(c) == c \notin {"+", "-", " "}

\* the field validators of PatientCreate (app/models/patients_model.py)
PatientCreate_valid(req) ==
    /\ Len(req.fullName) >= MinNameLen
    /\ Len(req.fullName) <= MaxNameLen
    /\ Len(SelectSeq(req.contactNumber, IsNotPhonePunct)) >= MinContactLen
    /\ req.dateOfBirth \in ParsableDates
    /\ req.gender \in valid_genders

\* validate_patient_data: the list of errors is empty
validate_patient_data(req) ==
    /\ truthy(req.fullName) /\ strip(req.fullName) # <<>>
    /\ truthy(req.contactNumber) /\ strip(req.contactNumber) # <<>>
    /\ req.dateOfBirth # ""
    /\ req.gender # ""
    /\ truthy(req.locality) /\ strip(req.locality) # <<>>
    /\ Len(digits_and_plus(req.contactNumber)) >= MinContactLen
    /\ req.dateOfBirth \in ParsableDates
    /\ req.gender \in valid_genders
    /\ Len(strip(req.locality)) >= MinLocalityLen

\* datetime.now().strftime("%y%m%d"): day 0 of the model is 3 November 2026
strftime_ymd(day) == zfill(str_int(261103 + day), 6)

\* datetime.now().strftime("%H%M%S")
strftime_hms(sec) ==
    zfill(str_int(sec \div 3600), 2) \o zfill(str_int((sec % 3600) \div 60), 2)
        \o zfill(str_int(sec % 60), 2)

\* atomic_patient_id, were the sequence number left out
daily_patient_id(day, sequence) ==
    <<"P", "A", "T", "-">> \o strftime_ymd(day) \o <<"-", "0", "0", "1">>

\* generate_patient_id, atomic path: f"PAT-{today}-{str(sequence).zfill(3)}"
atomic_patient_id(day, sequence) ==
    <<"P", "A", "T", "-">> \o strftime_ymd(day) \o <<"-">>
        \o zfill(str_int(sequence), SeqWidth)

\* fallback_patient_id, were the timestamp taken to the minute
fallback_patient_id_hhmm(day, sec) ==
    <<"P", "A", "T", "-">> \o strftime_ymd(day) \o <<"-", "T">>
        \o SubSeq(strftime_hms(sec), 1, 4) \o <<"0", "0">>

\* generate_patient_id, fallback path: f"PAT-{today}-T{timestamp}"
fallback_patient_id(day, sec) ==
    <<"P", "A", "T", "-">> \o strftime_ymd(day) \o <<"-", "T">> \o strftime_hms(sec)

\* inc_sequence, were the increment a read followed by a write of a stale value
inc_sequence_lost(cs, day) ==
    [d \in DOMAIN cs \cup {day} |-> IF d = day THEN 1 ELSE cs[d]]

\* find_one_and_update({"_id": ...}, {"$inc": {"sequence": 1}}, upsert=True,
\* return_document=True): the counter collection after the increment
inc_sequence(cs, day) ==
    IF day \in DOMAIN cs
    THEN [cs EXCEPT ![day] = @ + 1]
    ELSE [d \in DOMAIN cs \cup {day} |-> IF d = day THEN 1 ELSE cs[d]]

\* format_patient_document, with the audit fields create_patient adds
format_patient_document(req, patient_id) ==
    [patient_id |-> patient_id,
     full_name |-> req.fullName,
     contact_number |-> req.contactNumber,
     date_of_birth |-> req.dateOfBirth,
     gender |-> req.gender,
     locality |-> req.locality,
     is_active |-> TRUE,
     created_by |-> "Bot"]

----------------------------------------------------------------------------
(* The requests of the model *)

NameAsha == <<"A", "s", "h", "a">>
NameAshaLower == <<"a", "s", "h", "a">>
NameAshaPadded == <<" ", "A", "s", "h", "a">>
NameRavi == <<"R", "a", "v", "i">>

PhoneLocal == <<"9", "8", "7", "6", "5", "4", "3", "2", "1", "0">>
PhonePlus91 == <<"+", "9", "1", "9", "8", "7", "6", "5", "4", "3", "2", "1", "0">>
Phone91 == <<"9", "1", "9", "8", "7", "6", "5", "4", "3", "2", "1", "0">>
PhoneSpaced == <<"9", "8", "7", "6", "5", " ", "4", "3", "2", "1", "0">>
PhoneOther == <<"9", "1", "2", "3", "4", "5", "6", "7", "8", "0">>
PhoneShort == <<"1", "2", "3", "4", "5">>

LocalityOk == <<"K", "o", "n", "d", "a", "p", "u", "r">>
LocalityShort == <<"H", "y", "d">>

Request(name, phone, dob, gender, locality) ==
    [fullName |-> name, contactNumber |-> phone, dateOfBirth |-> dob,
     gender |-> gender, locality |-> locality]

ValidRequests ==
    { Request(NameAsha, PhoneLocal, "01-02-1990", "Male", LocalityOk),
      Request(NameAshaLower, PhonePlus91, "01-02-1990", "Male", LocalityOk),
      Request(NameRavi, PhoneLocal, "15-08-1985", "Male", LocalityOk),
      Request(NameAsha, PhoneLocal, "15-08-1985", "Male", LocalityOk),
      Request(NameAshaPadded, PhoneSpaced, "01-02-1990", "Male", LocalityOk) }

InvalidRequests ==
    { Request(NameAsha, PhoneShort, "01-02-1990", "Male", LocalityOk),
      Request(NameAsha, PhoneLocal, "01-02-1990", "Male", LocalityShort) }

CreateRequests == ValidRequests \cup InvalidRequests

\* the registrations that fill the store the lookups run against
ResolverRequests ==
    { Request(NameAsha, PhoneLocal, "01-02-1990", "Male", LocalityOk),
      Request(NameAshaLower, PhonePlus91, "01-02-1990", "Male", LocalityOk),
      Request(NameAshaPadded, PhoneSpaced, "01-02-1990", "Male", LocalityOk) }

\* the registrations the update routes work on
RecordRequests ==
    { Request(NameAsha, PhoneLocal, "01-02-1990", "Male", LocalityOk),
      Request(NameRavi, PhoneLocal, "15-08-1985", "Male", LocalityOk) }

\* the registrations several workers handle at once
WorkersRequests ==
    { Request(NameAsha, PhoneLocal, "01-02-1990", "Male", LocalityOk),
      Request(NameRavi, PhoneLocal, "15-08-1985", "Male", LocalityOk) }

----------------------------------------------------------------------------
(* app/services/patient_service.py: the resolver *)

\* {"contact_number": {"$regex": f".*{re.escape(last_10_digits)}$"}}: the
\* stored string ends with the ten characters ($ also matches before one
\* final newline; a null field matches no $regex)
contact_regex(stored, last_10_digits) ==
    /\ stored # NoneStr
    /\ \/ endswith(stored, last_10_digits)
       \/ endswith(stored, last_10_digits \o <<"\n">>)

\* {"full_name": {"$regex": f"^{re.escape(clean_name)}$", "$options": "i"}}:
\* the whole stored string equals the name, letter case ignored
name_regex(stored, clean_name) ==
    /\ stored # NoneStr
    /\ \/ lower(stored) = lower(clean_name)
       \/ lower(stored) = lower(clean_name) \o <<"\n">>

\* last_10_digits, were the whole cleaned number matched
whole_contact(clean_contact) == clean_contact

\* last_10_digits = clean_contact[-10:]
last_10_digits(clean_contact) == last_chars(clean_contact, 10)

\* clean_name = full_name.strip().lower()
clean_name(full_name) == lower(strip(full_name))

Query(patient_id, contact_number, full_name) ==
    [patient_id |-> patient_id, contact_number |-> contact_number,
     full_name |-> full_name]

\* the if / elif chain of find_existing_patient: the list query_conditions
query_conditions(q) ==
    IF truthy(q.patient_id) /\ strip(q.patient_id) # <<>>
    THEN << [branch |-> "patient_id", patient_id |-> strip(q.patient_id)] >>
    ELSE IF truthy(q.contact_number) /\ truthy(q.full_name)
    THEN IF Len(sanitize_phone_number(q.contact_number)) >= MinContactLen
         THEN << [branch |-> "contact_and_name",
                  last_10_digits |-> last_10_digits(sanitize_phone_number(q.contact_number)),
                  clean_name |-> clean_name(q.full_name)] >>
         ELSE << >>
    ELSE IF truthy(q.contact_number) /\ strip(q.contact_number) # <<>>
    THEN IF Len(sanitize_phone_number(q.contact_number)) >= MinContactLen
         THEN << [branch |-> "contact",
                  last_10_digits |-> last_10_digits(sanitize_phone_number(q.contact_number))] >>
         ELSE << >>
    ELSE IF truthy(q.full_name) /\ strip(q.full_name) # <<>>
    THEN << [branch |-> "name", clean_name |-> clean_name(q.full_name)] >>
    ELSE << >>

\* the document satisfies one condition of query_conditions
condition_holds(doc, cond) ==
    CASE cond.branch = "patient_id" -> doc.patient_id = cond.patient_id
      [] cond.branch = "contact_and_name" ->
            /\ contact_regex(doc.contact_number, cond.last_10_digits)
            /\ name_regex(doc.full_name, cond.clean_name)
      [] cond.branch = "contact" ->
            contact_regex(doc.contact_number, cond.last_10_digits)
      [] cond.branch = "name" -> name_regex(doc.full_name, cond.clean_name)

\* active_only, were is_active left out of the query
active_or_not(doc) == TRUE

\* query["is_active"] = True
active_only(doc) == doc.is_active = TRUE

\* the final query of find_existing_patient against one document
query_matches(doc, conds) ==
    /\ \E i \in 1..Len(conds) : condition_holds(doc, conds[i])
    /\ active_only(doc)

\* db.patients.find_one(query): None, or any one matching document (no sort
\* is given, and the store's natural order is not fixed by the code)
find_one(ps, conds) ==
    LET hits == {i \in 1..Len(ps) : query_matches(ps[i], conds)}
    IN  IF hits = {} THEN {None} ELSE {ps[i] : i \in hits}

\* an exception a callee lets escape; create_patient's except clause turns it
\* into "Failed to create patient"
Raised == [raised |-> TRUE]

\* find_on_error, were the except clause of find_existing_patient missing
find_on_error_propagates == Raised

\* what find_existing_patient returns when the storage query raises
find_on_error == None

\* find_existing_patient: the values it may return; `raises` says the
\* storage round trip fails
find_existing_patient(ps, q, raises) ==
    IF query_conditions(q) = << >> THEN {None}
    ELSE IF raises THEN {find_on_error}
    ELSE find_one(ps, query_conditions(q))

\* the number of storage queries find_existing_patient issues
queries_issued(q) == IF query_conditions(q) = << >> THEN 0 ELSE 1

\* a storage round trip may raise only where one is made
may_raise(q) == IF queries_issued(q) = 0 THEN {FALSE} ELSE BOOLEAN

\* get_patient_by_id: find_one({"patient_id": patient_id.strip(), "is_active": True})
get_patient_by_id(ps, patient_id, raises) ==
    IF ~truthy(patient_id) \/ strip(patient_id) = <<>> THEN {None}
    ELSE IF raises THEN {None}
    ELSE find_one(ps, << [branch |-> "patient_id", patient_id |-> strip(patient_id)] >>)

----------------------------------------------------------------------------
(* app/services/patient_service.py: create_patient *)

\* _error_response(message)
error_response(message) == [success |-> FALSE, message |-> message, error |-> TRUE]

\* the "exact_match" answer of create_patient
duplicate_response(existing) ==
    [success |-> FALSE, message |-> "Patient already exists in our system",
     patient_id |-> existing.patient_id, existing_patient |-> TRUE,
     duplicate_type |-> "exact_match"]

\* the success answer of create_patient
created_response(patient_id) ==
    [success |-> TRUE, message |-> "Patient created successfully",
     patient_id |-> patient_id, existing_patient |-> FALSE]

\* same_name and same_dob of create_patient
same_name(existing, req) == lower(existing.full_name) = lower(req.fullName)

\* same_dob, were the dates of birth not compared
same_dob_unchecked(existing, req) == TRUE

same_dob(existing, req) == existing.date_of_birth = req.dateOfBirth

IdleCall ==
    [req |-> None, existing |-> None, find_raised |-> FALSE,
     patient_id |-> NoneStr, id_path |-> "none"]

\* the calls of create_patient that have not returned yet
InFlight == {p \in Procs : pc[p] \in {"find", "generate", "insert"}}

\* the query of create_patient's duplicate check
duplicate_query(req) == Query(NoneStr, req.contactNumber, req.fullName)

\* step 1: the request is parsed into PatientCreate and validated
create_patient_validate(p, req) ==
    /\ pc[p] = "idle"
    /\ Len(patients) + Cardinality(InFlight) < MaxPatients
    /\ IF ~PatientCreate_valid(req)
       THEN /\ returned' = error_response("422 Unprocessable Entity")
            /\ UNCHANGED <<pc, call>>
       ELSE IF ~validate_patient_data(req)
       THEN /\ returned' = error_response("Validation error")
            /\ UNCHANGED <<pc, call>>
       ELSE /\ pc' = [pc EXCEPT ![p] = "find"]
            /\ call' = [call EXCEPT ![p] = [IdleCall EXCEPT !.req = req]]
            /\ UNCHANGED returned
    /\ UNCHANGED <<patients, assigned, counters, issued, now, lastFind>>
    /\ UNCHANGED bookingVars
    /\ UNCHANGED deskVars

\* step 2: the duplicate check, one storage query, and the classification;
\* `raises` says the storage round trip fails
create_patient_find(p, raises) ==
    /\ pc[p] = "find"
    /\ \E existing \in find_existing_patient(patients, duplicate_query(call[p].req), raises) :
          IF existing = Raised
          THEN /\ pc' = [pc EXCEPT ![p] = "idle"]
               /\ call' = [call EXCEPT ![p] = IdleCall]
               /\ returned' = error_response("Failed to create patient")
          ELSE IF existing # None /\ same_name(existing, call[p].req)
                                  /\ same_dob(existing, call[p].req)
          THEN /\ pc' = [pc EXCEPT ![p] = "idle"]
               /\ call' = [call EXCEPT ![p] = IdleCall]
               /\ returned' = duplicate_response(existing)
          ELSE /\ pc' = [pc EXCEPT ![p] = "generate"]
               /\ call' = [call EXCEPT ![p].find_raised = raises,
                                       ![p].existing = existing]
               /\ UNCHANGED returned
    /\ UNCHANGED <<patients, assigned, counters, issued, now, lastFind>>
    /\ UNCHANGED bookingVars
    /\ UNCHANGED deskVars

\* step 3: generate_patient_id, the atomic counter or, when that raises, the
\* timestamp fallback
create_patient_generate(p, raises) ==
    /\ pc[p] = "generate"
    /\ IF ~raises
       THEN /\ now.day \in DOMAIN counters => counters[now.day] < MaxSeq
            /\ counters' = inc_sequence(counters, now.day)
            /\ issued' = Append(issued, <<now.day, counters'[now.day]>>)
            /\ call' = [call EXCEPT
                   ![p].patient_id = atomic_patient_id(now.day, counters'[now.day]),
                   ![p].id_path = "atomic"]
       ELSE /\ call' = [call EXCEPT
                   ![p].patient_id = fallback_patient_id(now.day, now.sec),
                   ![p].id_path = "fallback"]
            /\ UNCHANGED <<counters, issued>>
    /\ pc' = [pc EXCEPT ![p] = "insert"]
    /\ UNCHANGED <<patients, assigned, now, returned, lastFind>>
    /\ UNCHANGED bookingVars
    /\ UNCHANGED deskVars

\* step 4: db.patients.insert_one(patient_document), and the answer
create_patient_insert(p, raises) ==
    /\ pc[p] = "insert"
    /\ IF ~raises
       THEN /\ patients' = Append(patients,
                             format_patient_document(call[p].req, call[p].patient_id))
            /\ assigned' = Append(assigned, call[p].patient_id)
            /\ returned' = created_response(call[p].patient_id)
       ELSE /\ returned' = error_response("Failed to create patient")
            /\ UNCHANGED <<patients, assigned>>
    /\ pc' = [pc EXCEPT ![p] = "idle"]
    /\ call' = [call EXCEPT ![p] = IdleCall]
    /\ lastFind' = None
    /\ UNCHANGED <<counters, issued, now>>
    /\ UNCHANGED bookingVars
    /\ UNCHANGED deskVars

----------------------------------------------------------------------------
(* update_patient, deactivate_patient and the update route of healthcare.py *)

\* a value of an update_data dict (None is a value too), and the empty dict
Val(x) == [value |-> x]

EmptyDict == [k \in {} |-> None]

\* update_data["updated_by"] = "Emma" (the timestamps updated_at, created_at,
\* registration_date and deactivated_at are left out of the documents: no
\* filter and no decision of the code reads them, and an update that matches
\* a document always changes its updated_at, so modified_count is matched_count)
with_updated_by(fields) ==
    [k \in DOMAIN fields \cup {"updated_by"} |->
        IF k = "updated_by" THEN Val("Emma") ELSE fields[k]]

\* {k: v for k, v in update_data.items() if v is not None}
clean_update_data(update_data) ==
    [k \in {f \in DOMAIN update_data : update_data[f] # None} |-> update_data[k]]

\* restricted_fields of the healthcare route are popped from update_data
restricted_fields == {"_id", "patient_id", "registration_date", "created_by"}

pop_restricted(update_data) ==
    [k \in DOMAIN update_data \ restricted_fields |-> update_data[k]]

\* {"$set": fields} applied to one document (a None value stores null)
set_fields(doc, fields) ==
    [k \in DOMAIN doc \cup DOMAIN fields |->
        IF k \in DOMAIN fields
        THEN IF fields[k] = None THEN NoneStr ELSE fields[k].value
        ELSE doc[k]]

\* the documents update_one may pick: those holding the identifier (and
\* active, when the filter says so)
update_targets(ps, patient_id, active) ==
    {i \in 1..Len(ps) : ps[i].patient_id = patient_id /\ (active => ps[i].is_active = TRUE)}

\* the identifiers requests name: those stored, and one nobody holds
MissingId == <<"P", "A", "T", "-", "0">>

PatientIdInputs == {patients[i].patient_id : i \in 1..Len(patients)} \cup {MissingId}

UpdateInputs ==
    { EmptyDict,
      [full_name |-> Val(NameRavi)],
      [full_name |-> None],
      [patient_id |-> Val(atomic_patient_id(0, 2))],
      [is_active |-> Val(FALSE)],
      [is_active |-> Val(TRUE)] }

\* the updates made between lookups
ResolverUpdates == { [is_active |-> Val(FALSE)] }

\* PatientService.update_patient: the answer, and db.patients afterwards
update_patient(patient_id, update_data) ==
    /\ \E raises \in BOOLEAN :
          IF ~truthy(patient_id) \/ strip(patient_id) = <<>>
          THEN UNCHANGED patients
          ELSE IF DOMAIN update_data = {}
          THEN UNCHANGED patients
          ELSE IF raises
          THEN UNCHANGED patients
          ELSE IF update_targets(patients, strip(patient_id), TRUE) = {}
          THEN UNCHANGED patients
          ELSE \E i \in update_targets(patients, strip(patient_id), TRUE) :
               /\ patients' = [patients EXCEPT
                      ![i] = set_fields(@, clean_update_data(update_data))]
    /\ lastFind' = None
    /\ UNCHANGED <<assigned, counters, issued, now, pc, call, returned>>
    /\ UNCHANGED bookingVars
    /\ UNCHANGED deskVars

\* POST /healthcare/patients/{patient_id}/update
healthcare_update_patient(patient_id, update_data) ==
    /\ \E raises \in BOOLEAN :
          IF raises \/ update_targets(patients, patient_id, FALSE) = {}
          THEN UNCHANGED patients
          ELSE \E i \in update_targets(patients, patient_id, FALSE) :
               /\ patients' = [patients EXCEPT
                      ![i] = set_fields(@, with_updated_by(pop_restricted(update_data)))]
    /\ lastFind' = None
    /\ UNCHANGED <<assigned, counters, issued, now, pc, call, returned>>
    /\ UNCHANGED bookingVars
    /\ UNCHANGED deskVars

\* deactivate_patient, were it a delete_one
deactivate_patient_hard(patient_id) ==
    /\ LET kept(doc) == doc.patient_id # strip(patient_id)
       IN  patients' = SelectSeq(patients, kept)
    /\ lastFind' = None
    /\ UNCHANGED <<assigned, counters, issued, now, pc, call, returned>>
    /\ UNCHANGED bookingVars
    /\ UNCHANGED deskVars

\* PatientService.deactivate_patient
deactivate_patient(patient_id) ==
    /\ \E raises \in BOOLEAN :
          IF ~truthy(patient_id) \/ strip(patient_id) = <<>>
          THEN UNCHANGED patients
          ELSE IF raises
          THEN UNCHANGED patients
          ELSE IF update_targets(patients, strip(patient_id), FALSE) = {}
          THEN UNCHANGED patients
          ELSE \E i \in update_targets(patients, strip(patient_id), FALSE) :
               /\ patients' = [patients EXCEPT ![i] = set_fields(@, [is_active |-> Val(FALSE)])]
    /\ lastFind' = None
    /\ UNCHANGED <<assigned, counters, issued, now, pc, call, returned>>
    /\ UNCHANGED bookingVars
    /\ UNCHANGED deskVars

----------------------------------------------------------------------------
(* The lookups: POST /patients/search and GET /patients/{patient_id} *)

SearchQueries ==
    { Query(NoneStr, NoneStr, NoneStr),
      Query(<<" ">>, <<>>, <<>>),
      Query(NoneStr, PhoneShort, NameAsha),
      Query(NoneStr, PhoneShort, NoneStr),
      Query(NoneStr, PhonePlus91, NameAshaLower),
      Query(NoneStr, Phone91, NoneStr),
      Query(NoneStr, PhoneLocal, NoneStr),
      Query(NoneStr, NoneStr, NameAshaPadded),
      Query(NoneStr, <<" ">>, NameRavi) }

\* POST /patients/search: find_existing_patient with the caller's criteria
search_patients(q) ==
    /\ \E raises \in may_raise(q) :
       \E result \in find_existing_patient(patients, q, raises) :
          lastFind' = [op |-> "find_existing_patient", query |-> q,
                       issued |-> queries_issued(q), raised |-> raises,
                       result |-> result]
    /\ UNCHANGED <<patients, assigned, counters, issued, now, pc, call, returned>>
    /\ UNCHANGED bookingVars
    /\ UNCHANGED deskVars

\* POST /patients/search with a patientId (padded with a blank) next to a
\* contact number and a name
search_by_id(patient_id) ==
    /\ \E raises \in BOOLEAN :
       \E result \in find_existing_patient(patients,
                        Query(<<" ">> \o patient_id, PhoneOther, NameRavi), raises) :
          lastFind' = [op |-> "find_existing_patient",
                       query |-> Query(<<" ">> \o patient_id, PhoneOther, NameRavi),
                       issued |-> 1, raised |-> raises, result |-> result]
    /\ UNCHANGED <<patients, assigned, counters, issued, now, pc, call, returned>>
    /\ UNCHANGED bookingVars
    /\ UNCHANGED deskVars

\* GET /patients/{patient_id}: get_patient_by_id
get_patient(patient_id) ==
    /\ \E raises \in BOOLEAN :
       \E result \in get_patient_by_id(patients, patient_id, raises) :
          lastFind' = [op |-> "get_patient_by_id",
                       query |-> Query(patient_id, NoneStr, NoneStr),
                       issued |-> 1, raised |-> raises, result |-> result]
    /\ UNCHANGED <<patients, assigned, counters, issued, now, pc, call, returned>>
    /\ UNCHANGED bookingVars
    /\ UNCHANGED deskVars

----------------------------------------------------------------------------
(* The appointment routes of app/api/healthcare.py and app/api/appointments.py *)

MaxAppointments == 2    \* appointments in db.appointments and in the making,
                        \* and references pushed in a run
MaxHistory == 2         \* history entries written in a run

\* the values the routes accept or write as an appointment status
Statuses == {"scheduled", "confirmed", "cancelled", "completed", "rescheduled"}

\* db.Doctors_data: reference data no route writes
Doctors_data == {"DOC-1"}

\* the doctor identifiers requests name: one on record, one not
DoctorIdInputs == {"DOC-1", "DOC-9"}

\* an HTTP answer: HTTPException(status_code, detail), or 200 with a message
HttpResponse(status_code, detail) == [status_code |-> status_code, detail |-> detail]

\* datetime.now().strftime('%Y%M%S'): year, minute and second of the moment
strftime_YMS(day, sec) ==
    <<"2", "0">> \o SubSeq(strftime_ymd(day), 1, 2)
        \o zfill(str_int((sec % 3600) \div 60), 2) \o zfill(str_int(sec % 60), 2)

\* appointment_id = f"APT{datetime.now().strftime('%Y%M%S')}"
new_appointment_id(day, sec) == <<"A", "P", "T">> \o strftime_YMS(day, sec)

\* the document with the status of models/appointment.py in place of
\* "scheduled"
appointment_document_pending(req, appointment_id) ==
    [appointment_id |-> appointment_id,
     patient_id |-> req.patient_id,
     doctor_id |-> req.doctorId,
     preferred_date |-> req.preferredDate,
     status |-> "pending",
     cancellation_reason |-> "None",
     created_at |-> now]

\* appointment_document of create_appointment (the fields that a filter, a
\* decision or the history of the routes reads or that a route rewrites, and
\* created_at, the moment of datetime.now())

appointment_document(req, appointment_id) ==
    [appointment_id |-> appointment_id,
     patient_id |-> req.patient_id,
     doctor_id |-> req.doctorId,
     preferred_date |-> req.preferredDate,
     status |-> "scheduled",
     cancellation_reason |-> "None",
     created_at |-> now]

\* an AppointmentRequest
AppointmentRequest(patient_id, doctorId, preferredDate) ==
    [patient_id |-> patient_id, doctorId |-> doctorId, preferredDate |-> preferredDate]

\* the appointments a request may name: those stored, and one nobody holds
MissingAppointment == <<"A", "P", "T", "0">>

AppointmentIdInputs ==
    {appointments[i].appointment_id : i \in 1..Len(appointments)} \cup {MissingAppointment}

\* db.appointments.find_one({"appointment_id": appointment_id}): positions
find_appointment(as, appointment_id) ==
    {i \in 1..Len(as) : as[i].appointment_id = appointment_id}

\* the appointment requests that have not been answered yet
BookingInFlight == {p \in Procs : apc[p] # "idle"}

\* the worker answers: its locals are dropped
Answer(p, resp) ==
    /\ response' = resp
    /\ apc' = [apc EXCEPT ![p] = "idle"]
    /\ acall' = [acall EXCEPT ![p] = None]

\* except Exception as e: HTTPException(500, f"Failed to create appointment: {e}")
create_failed == HttpResponse(500, "Failed to create appointment")

\* POST /healthcare/appointments/create, step 1: the patient is looked up;
\* the HTTPException(404) raised for a missing patient is raised inside the
\* try block and caught by its `except Exception`
create_appointment_find(p, req, raises) ==
    /\ apc[p] = "idle"
    /\ Len(appointments) + Cardinality(BookingInFlight) < MaxAppointments
    /\ Len(pushed) < MaxAppointments
    /\ IF raises \/ \A i \in 1..Len(patients) : patients[i].patient_id # req.patient_id
       THEN Answer(p, create_failed)
       ELSE /\ apc' = [apc EXCEPT ![p] = "create_insert"]
            /\ acall' = [acall EXCEPT ![p] = [req |-> req, appointment_id |-> NoneStr]]
            /\ UNCHANGED response
    /\ UNCHANGED <<patients, appointments, history>>
    /\ UNCHANGED registryVars
    /\ UNCHANGED deskVars
    /\ UNCHANGED pushed

\* step 2: db.appointments.insert_one(appointment_document)
create_appointment_insert(p, raises) ==
    /\ apc[p] = "create_insert"
    /\ IF raises
       THEN Answer(p, create_failed) /\ UNCHANGED appointments
       ELSE /\ appointments' = Append(appointments,
                  appointment_document(acall[p].req, new_appointment_id(now.day, now.sec)))
            /\ apc' = [apc EXCEPT ![p] = "create_doctor"]
            /\ acall' = [acall EXCEPT
                   ![p].appointment_id = new_appointment_id(now.day, now.sec)]
            /\ UNCHANGED response
    /\ UNCHANGED <<patients, history>>
    /\ UNCHANGED registryVars
    /\ UNCHANGED deskVars
    /\ UNCHANGED pushed

\* step 3: db.Doctors_data.find_one({"doctor_id": doctorId}), then
\* doctor_data.get("doctor_email"), which raises on None
create_appointment_doctor(p, raises) ==
    /\ apc[p] = "create_doctor"
    /\ IF raises \/ acall[p].req.doctorId \notin Doctors_data
       THEN Answer(p, create_failed)
       ELSE /\ apc' = [apc EXCEPT ![p] = "create_push"]
            /\ UNCHANGED <<acall, response>>
    /\ UNCHANGED <<patients, appointments, history>>
    /\ UNCHANGED registryVars
    /\ UNCHANGED deskVars
    /\ UNCHANGED pushed

\* step 4: db.patients.update_one({"patient_id": ...}, {"$push": {"appointments":
\* ...}}) and the answer; the reference is kept in `pushed`, not in the
\* patient document (nothing reads it), and is pushed when a patient matches
create_appointment_push(p, raises) ==
    /\ apc[p] = "create_push"
    /\ IF raises
       THEN Answer(p, create_failed) /\ UNCHANGED pushed
       ELSE /\ pushed' = IF \E i \in 1..Len(patients) :
                               patients[i].patient_id = acall[p].req.patient_id
                         THEN Append(pushed, [patient_id |-> acall[p].req.patient_id,
                                              appointment_id |-> acall[p].appointment_id])
                         ELSE pushed
            /\ Answer(p, HttpResponse(200, "Appointment scheduled successfully"))
    /\ UNCHANGED <<patients, appointments, history>>
    /\ UNCHANGED registryVars
    /\ UNCHANGED deskVars

\* {"$set": fields} applied to one appointment (of the fields written, those
\* the documents of the model keep)
set_appointment(doc, fields) ==
    [k \in DOMAIN doc |-> IF k \in DOMAIN fields THEN fields[k] ELSE doc[k]]

\* the fields of a request body that are set: value is not None
provided_fields(body) ==
    [k \in {f \in DOMAIN body : body[f] # "None"} |-> body[k]]

\* an unhandled exception of a route without try: FastAPI answers 500
server_error == HttpResponse(500, "Internal Server Error")

\* POST /healthcare/appointments/reschedule, up to the update: the lookup, 404
\* when nothing is found, then 400 unless all three values are given
reschedule_find(p, data, raises) ==
    /\ apc[p] = "idle"
    /\ IF raises THEN Answer(p, server_error)
       ELSE IF find_appointment(appointments, data.appointment_id) = {}
       THEN Answer(p, HttpResponse(404,
                "Appointment is not created for the given appointment id"))
       ELSE IF data.preferred_date = "None" \/ data.preferred_time = "None"
       THEN Answer(p, HttpResponse(400,
                "appointment_id, preferred_date, and preferred_time are required"))
       ELSE /\ apc' = [apc EXCEPT ![p] = "reschedule_update"]
            /\ acall' = [acall EXCEPT ![p] = data]
            /\ UNCHANGED response
    /\ UNCHANGED <<patients, appointments, history>>
    /\ UNCHANGED registryVars
    /\ UNCHANGED deskVars
    /\ UNCHANGED pushed

\* the update_one of the reschedule route and its answer
reschedule_update(p, raises) ==
    /\ apc[p] = "reschedule_update"
    /\ IF raises THEN Answer(p, server_error) /\ UNCHANGED appointments
       ELSE IF find_appointment(appointments, acall[p].appointment_id) = {}
       THEN Answer(p, HttpResponse(404, "Appointment not found")) /\ UNCHANGED appointments
       ELSE \E i \in find_appointment(appointments, acall[p].appointment_id) :
            /\ appointments' = [appointments EXCEPT ![i] = set_appointment(@,
                   [preferred_date |-> acall[p].preferred_date, status |-> "rescheduled"])]
            /\ Answer(p, HttpResponse(200, "Appointment rescheduled successfully"))
    /\ UNCHANGED <<patients, history>>
    /\ UNCHANGED registryVars
    /\ UNCHANGED deskVars
    /\ UNCHANGED pushed

\* POST /healthcare/appointments/delete, up to the delete
cancel_appointments_find(p, appointment_id, raises) ==
    /\ apc[p] = "idle"
    /\ IF raises THEN Answer(p, server_error)
       ELSE IF find_appointment(appointments, appointment_id) = {}
       THEN Answer(p, HttpResponse(404,
                "Appointment is not created for the given appointment id"))
       ELSE /\ apc' = [apc EXCEPT ![p] = "delete"]
            /\ acall' = [acall EXCEPT ![p] = [appointment_id |-> appointment_id]]
            /\ UNCHANGED response
    /\ UNCHANGED <<patients, appointments, history>>
    /\ UNCHANGED registryVars
    /\ UNCHANGED deskVars
    /\ UNCHANGED pushed

\* sequence s without its i-th element
remove_at(s, i) == SubSeq(s, 1, i - 1) \o SubSeq(s, i + 1, Len(s))

\* db.appointments.delete_one({"appointment_id": appointment_id}) and the answer
cancel_appointments_delete(p, raises) ==
    /\ apc[p] = "delete"
    /\ IF raises THEN Answer(p, server_error) /\ UNCHANGED appointments
       ELSE IF find_appointment(appointments, acall[p].appointment_id) = {}
       THEN Answer(p, HttpResponse(404, "Appointment not found")) /\ UNCHANGED appointments
       ELSE \E i \in find_appointment(appointments, acall[p].appointment_id) :
            /\ appointments' = remove_at(appointments, i)
            /\ Answer(p, HttpResponse(200, "Appointment cancelled successfully"))
    /\ UNCHANGED <<patients, history>>
    /\ UNCHANGED registryVars
    /\ UNCHANGED deskVars
    /\ UNCHANGED pushed

\* FastAPI rejects a request that does not fit the route's model or
\* parameter types before the handler runs
unprocessable == HttpResponse(422, "Unprocessable Entity")

\* except Exception as e: HTTPException(500, f"Failed to update appointment: {e}")
update_failed == HttpResponse(500, "Failed to update appointment")

\* a history kept as one entry per appointment: update_one(..., upsert=True)
\* on the appointment_id in place of insert_one
upsert_history(log, activity_log) ==
    IF \E i \in 1..Len(log) : log[i].appointment_id = activity_log.appointment_id
    THEN [i \in 1..Len(log) |->
            IF log[i].appointment_id = activity_log.appointment_id
            THEN activity_log ELSE log[i]]
    ELSE Append(log, activity_log)

\* db.appointment_history.insert_one(activity_log)
insert_history(log, activity_log) == Append(log, activity_log)

\* update_fields of PUT /appointments/{appointment_id}: the fields of the body
\* that are not None, then updated_at and updated_by
put_update_fields(body) ==
    [k \in DOMAIN provided_fields(body) \cup {"updated_at", "updated_by"} |->
        IF k \in DOMAIN provided_fields(body) THEN body[k]
        ELSE IF k = "updated_by" THEN "EMMA" ELSE now]

\* PUT /appointments/{appointment_id}, up to the update: the lookup, 404 when
\* nothing is found, 400 when update_fields is empty (the bodies of the model
\* carry no doctor_id and no patient_id, so neither is looked up)
update_appointment_find(p, appointment_id, body, raises) ==
    /\ apc[p] = "idle"
    /\ Len(history) + Cardinality(BookingInFlight) < MaxHistory
    /\ IF body.status \notin Statuses \cup {"None"} THEN Answer(p, unprocessable)
       ELSE IF raises THEN Answer(p, update_failed)
       ELSE IF find_appointment(appointments, appointment_id) = {}
       THEN Answer(p, HttpResponse(404, "Appointment not found"))
       ELSE IF DOMAIN put_update_fields(body) = {}
       THEN Answer(p, HttpResponse(400, "No valid fields provided for update"))
       ELSE /\ apc' = [apc EXCEPT ![p] = "update_write"]
            /\ acall' = [acall EXCEPT ![p] =
                   [appointment_id |-> appointment_id,
                    update_fields |-> put_update_fields(body)]]
            /\ UNCHANGED response
    /\ UNCHANGED <<patients, appointments, history>>
    /\ UNCHANGED registryVars
    /\ UNCHANGED deskVars
    /\ UNCHANGED pushed

\* db.appointments.update_one({"appointment_id": ...}, {"$set": update_fields})
update_appointment_write(p, raises) ==
    /\ apc[p] = "update_write"
    /\ IF raises THEN Answer(p, update_failed) /\ UNCHANGED appointments
       ELSE /\ IF find_appointment(appointments, acall[p].appointment_id) = {}
               THEN UNCHANGED appointments
               ELSE \E i \in find_appointment(appointments, acall[p].appointment_id) :
                       appointments' = [appointments EXCEPT
                           ![i] = set_appointment(@, acall[p].update_fields)]
            /\ apc' = [apc EXCEPT ![p] = "update_refetch"]
            /\ UNCHANGED <<acall, response>>
    /\ UNCHANGED <<patients, history>>
    /\ UNCHANGED registryVars
    /\ UNCHANGED deskVars
    /\ UNCHANGED pushed

\* updated_appointment = find_one(...); updated_appointment["_id"] raises on None
update_appointment_refetch(p, raises) ==
    /\ apc[p] = "update_refetch"
    /\ IF raises \/ find_appointment(appointments, acall[p].appointment_id) = {}
       THEN Answer(p, update_failed)
       ELSE /\ apc' = [apc EXCEPT ![p] = "update_log"]
            /\ UNCHANGED <<acall, response>>
    /\ UNCHANGED <<patients, appointments, history>>
    /\ UNCHANGED registryVars
    /\ UNCHANGED deskVars
    /\ UNCHANGED pushed

\* db.appointment_history.insert_one(activity_log) and the answer
update_appointment_log(p, raises) ==
    /\ apc[p] = "update_log"
    /\ IF raises THEN Answer(p, update_failed) /\ UNCHANGED history
       ELSE /\ history' = insert_history(history,
                  [appointment_id |-> acall[p].appointment_id,
                   action |-> "updated",
                   updated_fields |-> DOMAIN acall[p].update_fields,
                   updated_by |-> "EMMA"])
            /\ Answer(p, HttpResponse(200, "Appointment updated successfully"))
    /\ UNCHANGED <<patients, appointments>>
    /\ UNCHANGED registryVars
    /\ UNCHANGED deskVars
    /\ UNCHANGED pushed

\* except Exception as e: HTTPException(500, f"Failed to update appointment status: {e}")
status_failed == HttpResponse(500, "Failed to update appointment status")

\* update_data of PATCH /appointments/{appointment_id}/status
status_update_data(status_update, cancellation_reason) ==
    IF status_update = "cancelled"
    THEN [status |-> status_update, cancellation_reason |-> cancellation_reason]
    ELSE [status |-> status_update]

\* PATCH /appointments/{appointment_id}/status, up to the update: 400 for a
\* cancellation without a reason, the lookup, 404 when nothing is found
update_appointment_status_find(p, appointment_id, status_update, cancellation_reason, raises) ==
    /\ apc[p] = "idle"
    /\ Len(history) + Cardinality(BookingInFlight) < MaxHistory
    /\ IF status_update \notin Statuses THEN Answer(p, unprocessable)
       ELSE IF status_update = "cancelled" /\ cancellation_reason \in {"None", ""}
       THEN Answer(p, HttpResponse(400,
                "Cancellation reason is required when cancelling an appointment"))
       ELSE IF raises THEN Answer(p, status_failed)
       ELSE IF find_appointment(appointments, appointment_id) = {}
       THEN Answer(p, HttpResponse(404, "Appointment not found"))
       ELSE \E i \in find_appointment(appointments, appointment_id) :
            /\ apc' = [apc EXCEPT ![p] = "status_write"]
            /\ acall' = [acall EXCEPT ![p] =
                   [appointment_id |-> appointment_id,
                    status_update |-> status_update,
                    cancellation_reason |-> cancellation_reason,
                    old_status |-> appointments[i].status]]
            /\ UNCHANGED response
    /\ UNCHANGED <<patients, appointments, history>>
    /\ UNCHANGED registryVars
    /\ UNCHANGED deskVars
    /\ UNCHANGED pushed

\* db.appointments.update_one({"appointment_id": ...}, {"$set": update_data})
update_appointment_status_write(p, raises) ==
    /\ apc[p] = "status_write"
    /\ IF raises THEN Answer(p, status_failed) /\ UNCHANGED appointments
       ELSE /\ IF find_appointment(appointments, acall[p].appointment_id) = {}
               THEN UNCHANGED appointments
               ELSE \E i \in find_appointment(appointments, acall[p].appointment_id) :
                       appointments' = [appointments EXCEPT ![i] = set_appointment(@,
                           status_update_data(acall[p].status_update,
                                              acall[p].cancellation_reason))]
            /\ apc' = [apc EXCEPT ![p] = "status_log"]
            /\ UNCHANGED <<acall, response>>
    /\ UNCHANGED <<patients, history>>
    /\ UNCHANGED registryVars
    /\ UNCHANGED deskVars
    /\ UNCHANGED pushed

\* db.appointment_history.insert_one(activity_log) and the answer
update_appointment_status_log(p, raises) ==
    /\ apc[p] = "status_log"
    /\ IF raises THEN Answer(p, status_failed) /\ UNCHANGED history
       ELSE /\ history' = insert_history(history,
                  [appointment_id |-> acall[p].appointment_id,
                   action |-> "status_changed",
                   old_status |-> acall[p].old_status,
                   new_status |-> acall[p].status_update,
                   reason |-> IF acall[p].status_update = "cancelled"
                              THEN acall[p].cancellation_reason ELSE "None",
                   updated_by |-> "Emma"])
            /\ Answer(p, HttpResponse(200, "Appointment status updated"))
    /\ UNCHANGED <<patients, appointments>>
    /\ UNCHANGED registryVars
    /\ UNCHANGED deskVars
    /\ UNCHANGED pushed

\* update_fields of PATCH /appointments/edit: the truthy values of the request
edit_update_fields(data) ==
    [k \in {f \in {"preferred_date", "status"} : data[f] \notin {"None", ""}} |-> data[k]]

\* PATCH /appointments/edit, up to the update
edit_appointment_find(p, data, raises) ==
    /\ apc[p] = "idle"
    /\ IF data.status \notin {"scheduled", "None"} THEN Answer(p, unprocessable)
       ELSE IF raises THEN Answer(p, update_failed)
       ELSE IF find_appointment(appointments, data.appointment_id) = {}
       THEN Answer(p, HttpResponse(404, "Appointment not found"))
       ELSE IF DOMAIN edit_update_fields(data) = {}
       THEN Answer(p, HttpResponse(400, "No valid fields provided for update"))
       ELSE /\ apc' = [apc EXCEPT ![p] = "edit_write"]
            /\ acall' = [acall EXCEPT ![p] =
                   [appointment_id |-> data.appointment_id,
                    update_fields |-> edit_update_fields(data)]]
            /\ UNCHANGED response
    /\ UNCHANGED <<patients, appointments, history>>
    /\ UNCHANGED registryVars
    /\ UNCHANGED deskVars
    /\ UNCHANGED pushed

\* the update_one of the edit route and its answer (updated_at is among the
\* fields set, so a matched document is a modified one)
edit_appointment_write(p, raises) ==
    /\ apc[p] = "edit_write"
    /\ IF raises THEN Answer(p, update_failed) /\ UNCHANGED appointments
       ELSE IF find_appointment(appointments, acall[p].appointment_id) = {}
       THEN /\ Answer(p, HttpResponse(400, "No changes were made to the appointment"))
            /\ UNCHANGED appointments
       ELSE \E i \in find_appointment(appointments, acall[p].appointment_id) :
            /\ appointments' = [appointments EXCEPT
                   ![i] = set_appointment(@, acall[p].update_fields)]
            /\ Answer(p, HttpResponse(200, "Appointment updated successfully"))
    /\ UNCHANGED <<patients, history>>
    /\ UNCHANGED registryVars
    /\ UNCHANGED deskVars
    /\ UNCHANGED pushed

\* the requests the appointment routes are given
AppointmentRequests ==
    {AppointmentRequest(id, d, "2026-11-10") : id \in PatientIdInputs, d \in DoctorIdInputs}

\* those naming a doctor on record
StaffedRequests == {req \in AppointmentRequests : req.doctorId \in Doctors_data}

RescheduleRequests ==
    {[appointment_id |-> id, preferred_date |-> d, preferred_time |-> "10:00 AM"] :
        id \in AppointmentIdInputs, d \in {"2026-11-12"}}

UpdateBodies ==
    { [status |-> "confirmed", preferred_date |-> "None"],
      [status |-> "pending", preferred_date |-> "None"] }

\* bodies of PUT /appointments/{appointment_id} that provide no field, a
\* date, or the status cancelled
PutBodies ==
    { [status |-> "None", preferred_date |-> "None"],
      [status |-> "None", preferred_date |-> "2026-11-12"],
      [status |-> "cancelled", preferred_date |-> "None"] }

StatusInputs == {"cancelled", "pending"}

ReasonInputs == {"None", "patient unwell"}

EditRequests ==
    {[appointment_id |-> id, preferred_date |-> "", status |-> st] :
        id \in AppointmentIdInputs, st \in {"scheduled", "completed"}}

\* the registration that gives the appointment routes a patient
BookingRequests == { Request(NameAsha, PhoneLocal, "01-02-1990", "Male", LocalityOk) }

----------------------------------------------------------------------------
(* app/api/patients.py: PUT /patients/{patient_id} *)

\* what PatientService.update_patient returns; `matched` says update_one
\* found an active patient (updated_at is among the fields set, so a matched
\* document is a modified one)
update_patient_result(patient_id, update_data, raises, matched) ==
    IF ~truthy(patient_id) \/ strip(patient_id) = <<>>
    THEN error_response("Patient ID is required")
    ELSE IF DOMAIN update_data = {}
    THEN error_response("Update data is required")
    ELSE IF raises
    THEN error_response("Failed to update patient")
    ELSE IF matched
    THEN [success |-> TRUE, message |-> "Patient updated successfully",
          patient_id |-> patient_id, modified_count |-> 1]
    ELSE error_response("Patient not found or no changes made")

\* bool(d) of a Python dict
dict_truthy(d) == DOMAIN d # {}

\* the route: success = patient_service.update_patient(patient_id, update_data),
\* 404 if not success, the success answer otherwise; `returned` keeps what the
\* service returned
put_update_patient(patient_id, update_data) ==
    /\ \E raises \in BOOLEAN :
          LET reaches_store ==
                  /\ truthy(patient_id) /\ strip(patient_id) # <<>>
                  /\ DOMAIN update_data # {}
                  /\ ~raises
              targets ==
                  IF reaches_store
                  THEN update_targets(patients, strip(patient_id), TRUE) ELSE {}
              success ==
                  update_patient_result(patient_id, update_data, raises, targets # {})
          IN  /\ IF targets = {} THEN UNCHANGED patients
                 ELSE \E i \in targets :
                         patients' = [patients EXCEPT
                             ![i] = set_fields(@, clean_update_data(update_data))]
              /\ returned' = success
              /\ response' = IF ~dict_truthy(success)
                             THEN HttpResponse(404, "Patient not found")
                             ELSE HttpResponse(200, "Patient updated successfully")
    /\ lastFind' = None
    /\ UNCHANGED <<assigned, counters, issued, now, pc, call>>
    /\ UNCHANGED <<appointments, history, apc, acall, pushed>>
    /\ UNCHANGED deskVars

----------------------------------------------------------------------------
(* app/api/healthcare_calls.py: scheduled callbacks *)

MaxCallbacks == 1       \* callbacks scheduled in a run
MaxMinute == 11         \* minutes the clock of these routes runs

\* timedelta(minutes=5): how far ahead of its time a callback may be executed
DueMinutes == 5

\* the callback_time a request is processed to: now, the last minute that is
\* due now, the first that is not
CallbackTimeInputs == {clock, clock + DueMinutes, clock + DueMinutes + 1}

\* callback_data of schedule_healthcare_callback (the fields execute_callback
\* reads or a route rewrites)
callback_data(processed_time) == [callback_time |-> processed_time, status |-> "scheduled"]

\* except Exception as e: HTTPException(500, f"Failed to schedule callback: {e}")
schedule_failed == HttpResponse(500, "Failed to schedule callback")

\* POST /calls/schedule-callback; `complete` says the body carries all five
\* fields, `raises` names the storage round trip that fails: "insert", the
\* "update" of the call log after it, or "none"
schedule_healthcare_callback(complete, processed_time, raises) ==
    /\ Len(callbacks) < MaxCallbacks
    /\ IF ~complete \/ raises = "insert"
       THEN /\ response' = schedule_failed
            /\ UNCHANGED callbacks
       ELSE /\ callbacks' = Append(callbacks, callback_data(processed_time))
            /\ response' = IF raises = "update" THEN schedule_failed
                           ELSE HttpResponse(200, "Callback scheduled")
    /\ UNCHANGED <<tasks, launched, clock, users, reset_otp_store>>
    /\ UNCHANGED <<patients, appointments, history, apc, acall, pushed>>
    /\ UNCHANGED registryVars

\* the callback_id of no callback
MissingCallback == 0

CallbackIdInputs == (1..Len(callbacks)) \cup {MissingCallback}

\* except Exception as e: HTTPException(500, f"Failed to execute callback: {e}"),
\* which the 404 and the 400s raised inside the try end up as too
execute_failed == HttpResponse(500, "Failed to execute callback")

\* not (callback_time > current_time + timedelta(minutes=5))
is_due(callback_time, current_time) == ~(callback_time > current_time + DueMinutes)

\* POST /calls/callbacks/{callback_id}/execute, up to the update: the lookup
\* and the checks.  `tz_aware` says the client returns aware datetimes
\* (MongoClient(MONGO_URI) does when the URI asks for it); when it does not,
\* comparing the stored callback_time with datetime.now(timezone.utc) raises
execute_callback_find(p, callback_id, tz_aware, raises) ==
    /\ apc[p] = "idle"
    /\ IF raises \/ callback_id \notin 1..Len(callbacks)
       THEN Answer(p, execute_failed)
       ELSE IF callbacks[callback_id].status # "scheduled"
       THEN Answer(p, execute_failed)
       ELSE IF ~tz_aware
       THEN Answer(p, execute_failed)
       ELSE IF ~is_due(callbacks[callback_id].callback_time, clock)
       THEN Answer(p, execute_failed)
       ELSE /\ apc' = [apc EXCEPT ![p] = "execute_update"]
            /\ acall' = [acall EXCEPT ![p] =
                   [callback_id |-> callback_id, current_time |-> clock]]
            /\ UNCHANGED response
    /\ UNCHANGED deskVars
    /\ UNCHANGED <<patients, appointments, history, pushed>>
    /\ UNCHANGED registryVars

\* the update to "executing", background_tasks.add_task(...) and the answer
execute_callback_update(p, raises) ==
    /\ apc[p] = "execute_update"
    /\ IF raises
       THEN /\ Answer(p, execute_failed)
            /\ UNCHANGED <<callbacks, tasks, launched>>
       ELSE /\ callbacks' = [callbacks EXCEPT ![acall[p].callback_id].status = "executing"]
            /\ tasks' = Append(tasks, acall[p].callback_id)
            /\ launched' = Append(launched, acall[p].callback_id)
            /\ Answer(p, HttpResponse(200, "Callback execution started"))
    /\ UNCHANGED <<clock, users, reset_otp_store>>
    /\ UNCHANGED <<patients, appointments, history, pushed>>
    /\ UNCHANGED registryVars

\* what create_healthcare_ultravox_call() does: returns the call "created",
\* returns "nothing" (a RequestException), or "raises" anything else
CallOutcomes == {"created", "nothing", "raises"}

\* what the storage does to the task's writes: all "succeed", the "first"
\* raises and the one of the except clause succeeds, or "all" raise
WriteOutcomes == {"succeed", "first", "all"}

\* the status the task leaves, were a call that returned nothing left alone
final_status_unmarked(status, outcome, writes) ==
    IF writes = "succeed" /\ outcome = "created" THEN "completed" ELSE status

\* the status execute_healthcare_callback leaves a callback in
final_status(status, outcome, writes) ==
    IF writes = "all" THEN status
    ELSE IF writes = "succeed" /\ outcome = "created" THEN "completed"
    ELSE "failed"

\* the background task execute_healthcare_callback, the k-th of those pending
execute_healthcare_callback(k, outcome, writes) ==
    /\ k \in 1..Len(tasks)
    /\ callbacks' = [callbacks EXCEPT
           ![tasks[k]].status = final_status(@, outcome, writes)]
    /\ tasks' = remove_at(tasks, k)
    /\ UNCHANGED <<launched, clock, users, reset_otp_store>>
    /\ UNCHANGED <<patients, appointments, history, apc, acall, response, pushed>>
    /\ UNCHANGED registryVars

\* a minute passes
Minute ==
    /\ clock < MaxMinute
    /\ clock' = clock + 1
    /\ UNCHANGED <<callbacks, tasks, launched, users, reset_otp_store>>
    /\ UNCHANGED <<patients, appointments, history, apc, acall, response, pushed>>
    /\ UNCHANGED registryVars

----------------------------------------------------------------------------
(* app/api/auth.py: registration and the password reset by one-time password *)

\* timedelta(minutes=10): how long after its issue a one-time password expires
OtpMinutes == 10

EmailInputs == {"asha@clinic.example", "ravi@clinic.example"}
OtpInputs == {"482913", "305577"}

\* hash_password(password): the bcrypt hash of the password, never the
\* password itself
hash_password(password) == [bcrypt |-> password]

\* dict[key] = value
dict_set(d, key, value) ==
    [k \in DOMAIN d \cup {key} |-> IF k = key THEN value ELSE d[k]]

\* del dict[key], for a key the dict holds
dict_del(d, key) == [k \in DOMAIN d \ {key} |-> d[k]]

\* POST /register: 400 when the email is taken, else the user is stored with
\* the hash of the password
register_user(email, password) ==
    /\ IF email \in DOMAIN users
       THEN /\ response' = HttpResponse(400, "Email already registered")
            /\ UNCHANGED users
       ELSE /\ users' = dict_set(users, email, hash_password(password))
            /\ response' = HttpResponse(200, "Doctor registered successfully.")
    /\ UNCHANGED <<callbacks, tasks, launched, clock, reset_otp_store>>
    /\ UNCHANGED <<patients, appointments, history, apc, acall, pushed>>
    /\ UNCHANGED registryVars

\* {"otp": otp, "expires_at": datetime.now(timezone.utc) + timedelta(minutes=10)}
otp_entry(otp, current_time) ==
    [otp |-> otp, expires_at |-> current_time + OtpMinutes]

\* POST /forgot-password/otp; `otp` is what random.choices draws
send_otp(email, otp) ==
    /\ IF email \notin DOMAIN users
       THEN /\ response' = HttpResponse(404, "User not found")
            /\ UNCHANGED reset_otp_store
       ELSE /\ reset_otp_store' = dict_set(reset_otp_store, email, otp_entry(otp, clock))
            /\ response' = HttpResponse(200, "OTP sent successfully to your email")
    /\ UNCHANGED <<callbacks, tasks, launched, clock, users>>
    /\ UNCHANGED <<patients, appointments, history, apc, acall, pushed>>
    /\ UNCHANGED registryVars

\* reset_otp_store.get(data.email)
otp_store_get(store, email) ==
    IF email \in DOMAIN store THEN store[email] ELSE None

\* the test of reset_password_otp, were the expiry not looked at
otp_rejected_unexpired(entry, otp, current_time) ==
    entry = None \/ entry.otp # otp

\* not entry or entry["otp"] != data.otp
\*   or datetime.now(timezone.utc) > entry["expires_at"]
otp_rejected(entry, otp, current_time) ==
    \/ entry = None
    \/ entry.otp # otp
    \/ current_time > entry.expires_at

invalid_otp == HttpResponse(400, "Invalid or expired OTP")

\* POST /reset-password/otp, up to the storage round trip: the lookup in
\* the store and the test
reset_password_otp_check(p, data) ==
    /\ apc[p] = "idle"
    /\ IF otp_rejected(otp_store_get(reset_otp_store, data.email), data.otp, clock)
       THEN Answer(p, invalid_otp)
       ELSE /\ apc' = [apc EXCEPT ![p] = "reset_update"]
            /\ acall' = [acall EXCEPT ![p] = data]
            /\ UNCHANGED response
    /\ UNCHANGED deskVars
    /\ UNCHANGED <<patients, appointments, history, pushed>>
    /\ UNCHANGED registryVars

\* db["users"].update_one({"email": ...}, {"$set": {"password": hashed_pw}}),
\* del reset_otp_store[data.email] and the answer; the del raises KeyError
\* when another request has consumed the entry meanwhile
reset_password_otp_update(p) ==
    /\ apc[p] = "reset_update"
    /\ users' = IF acall[p].email \in DOMAIN users
                THEN [users EXCEPT ![acall[p].email] = hash_password(acall[p].new_password)]
                ELSE users
    /\ IF acall[p].email \in DOMAIN reset_otp_store
       THEN /\ reset_otp_store' = dict_del(reset_otp_store, acall[p].email)
            /\ Answer(p, HttpResponse(200, "Password reset successful using OTP"))
       ELSE /\ UNCHANGED reset_otp_store
            /\ Answer(p, HttpResponse(500, "Internal Server Error"))
    /\ UNCHANGED <<callbacks, tasks, launched, clock>>
    /\ UNCHANGED <<patients, appointments, history, pushed>>
    /\ UNCHANGED registryVars

\* the bodies of POST /reset-password/otp
ResetInputs ==
    [email : EmailInputs, otp : OtpInputs, new_password : {"second-secret"}]

----------------------------------------------------------------------------
(* The clock *)

\* a second passes
Tick ==
    /\ now.sec < MaxSec
    /\ now' = [now EXCEPT !.sec = @ + 1]
    /\ UNCHANGED <<patients, assigned, counters, issued, pc, call, returned, lastFind>>
    /\ UNCHANGED bookingVars
    /\ UNCHANGED deskVars

\* midnight passes
NextDay ==
    /\ now.day < MaxDay
    /\ now' = [day |-> now.day + 1, sec |-> 0]
    /\ UNCHANGED <<patients, assigned, counters, issued, pc, call, returned, lastFind>>
    /\ UNCHANGED bookingVars
    /\ UNCHANGED deskVars

----------------------------------------------------------------------------
(* The specification *)

Init ==
    /\ patients = << >>
    /\ assigned = << >>
    /\ counters = [d \in {} |-> 0]
    /\ issued = << >>
    /\ now = [day |-> 0, sec |-> 0]
    /\ pc = [p \in Procs |-> "idle"]
    /\ call = [p \in Procs |-> IdleCall]
    /\ returned = None
    /\ lastFind = None
    /\ appointments = << >>
    /\ history = << >>
    /\ apc = [p \in Procs |-> "idle"]
    /\ acall = [p \in Procs |-> None]
    /\ response = None
    /\ pushed = << >>
    /\ callbacks = << >>
    /\ tasks = << >>
    /\ launched = << >>
    /\ clock = 0
    /\ users = [email \in {} |-> NoneStr]
    /\ reset_otp_store = [email \in {} |-> None]

\* One worker: a handler runs to its end before the next request is taken
\* (the routes are async functions making blocking storage calls).

\* registration and duplicate detection, over a storage that may fail
Next ==
    \/ \E req \in CreateRequests : create_patient_validate(1, req)
    \/ pc[1] = "find" /\ \E raises \in may_raise(duplicate_query(call[1].req)) :
                            create_patient_find(1, raises)
    \/ \E raises \in BOOLEAN : create_patient_generate(1, raises)
    \/ \E raises \in BOOLEAN : create_patient_insert(1, raises)
    \/ InFlight = {} /\ \E id \in PatientIdInputs : deactivate_patient(id)

Spec == Init /\ [][Next]_vars

\* the resolver: lookups, which may fail, against a store of registered and
\* deactivated patients
NextResolver ==
    \/ \E req \in ResolverRequests : create_patient_validate(1, req)
    \/ create_patient_find(1, FALSE)
    \/ create_patient_generate(1, FALSE)
    \/ create_patient_insert(1, FALSE)
    \/ InFlight = {} /\ \E id \in PatientIdInputs : \E u \in ResolverUpdates : update_patient(id, u)
    \/ InFlight = {} /\ \E id \in PatientIdInputs : deactivate_patient(id)
    \/ InFlight = {} /\ \E q \in SearchQueries : search_patients(q)
    \/ InFlight = {} /\ \E id \in PatientIdInputs : search_by_id(id)
    \/ InFlight = {} /\ \E id \in PatientIdInputs : get_patient(id)

SpecResolver == Init /\ [][NextResolver]_vars

\* the life of a record: registration, the two update routes, deactivation
NextRecord ==
    \/ \E req \in RecordRequests : create_patient_validate(1, req)
    \/ create_patient_find(1, FALSE)
    \/ create_patient_generate(1, FALSE)
    \/ create_patient_insert(1, FALSE)
    \/ InFlight = {} /\ \E id \in PatientIdInputs : \E u \in UpdateInputs : update_patient(id, u)
    \/ InFlight = {} /\ \E id \in PatientIdInputs : \E u \in UpdateInputs :
                            healthcare_update_patient(id, u)
    \/ InFlight = {} /\ \E id \in PatientIdInputs : deactivate_patient(id)

SpecRecord == Init /\ [][NextRecord]_vars

\* Several workers: create_patient calls interleave at their storage round
\* trips, the counter may fail, and the clock runs.
NextWorkers ==
    \/ \E p \in Procs : \E req \in WorkersRequests : create_patient_validate(p, req)
    \/ \E p \in Procs : create_patient_find(p, FALSE)
    \/ \E p \in Procs : \E raises \in BOOLEAN : create_patient_generate(p, raises)
    \/ \E p \in Procs : create_patient_insert(p, FALSE)
    \/ Tick
    \/ NextDay

SpecWorkers == Init /\ [][NextWorkers]_vars

\* the appointment routes, one request at a time and one appointment at a
\* time over a storage that works, arriving within one second of the clock
\* for the patients registered beforehand
NextAppointments ==
    \/ response = None /\ BookingInFlight = {} /\
          \E req \in BookingRequests : create_patient_validate(1, req)
    \/ create_patient_find(1, FALSE)
    \/ create_patient_generate(1, FALSE)
    \/ create_patient_insert(1, FALSE)
    \/ InFlight = {} /\ appointments = << >> /\
          \E req \in StaffedRequests : create_appointment_find(1, req, FALSE)
    \/ create_appointment_insert(1, FALSE)
    \/ create_appointment_doctor(1, FALSE)
    \/ create_appointment_push(1, FALSE)
    \/ InFlight = {} /\ \E data \in RescheduleRequests : reschedule_find(1, data, FALSE)
    \/ reschedule_update(1, FALSE)
    \/ InFlight = {} /\ \E id \in AppointmentIdInputs : cancel_appointments_find(1, id, FALSE)
    \/ cancel_appointments_delete(1, FALSE)
    \/ InFlight = {} /\ \E id \in AppointmentIdInputs : \E body \in UpdateBodies :
          update_appointment_find(1, id, body, FALSE)
    \/ update_appointment_write(1, FALSE)
    \/ update_appointment_refetch(1, FALSE)
    \/ update_appointment_log(1, FALSE)
    \/ InFlight = {} /\ \E id \in AppointmentIdInputs : \E st \in StatusInputs :
          \E reason \in ReasonInputs :
             update_appointment_status_find(1, id, st, reason, FALSE)
    \/ update_appointment_status_write(1, FALSE)
    \/ update_appointment_status_log(1, FALSE)
    \/ InFlight = {} /\ \E data \in EditRequests : edit_appointment_find(1, data, FALSE)
    \/ edit_appointment_write(1, FALSE)

SpecAppointments == Init /\ [][NextAppointments]_vars

\* booking: POST /healthcare/appointments/create over a storage that may
\* fail, for patients registered and deactivated meanwhile
NextBooking ==
    \/ BookingInFlight = {} /\ \E req \in BookingRequests : create_patient_validate(1, req)
    \/ create_patient_find(1, FALSE)
    \/ create_patient_generate(1, FALSE)
    \/ create_patient_insert(1, FALSE)
    \/ BookingInFlight = {} /\ InFlight = {} /\ \E id \in PatientIdInputs : deactivate_patient(id)
    \/ InFlight = {} /\ \E req \in AppointmentRequests : \E raises \in BOOLEAN :
          create_appointment_find(1, req, raises)
    \/ \E raises \in BOOLEAN : create_appointment_insert(1, raises)
    \/ \E raises \in BOOLEAN : create_appointment_doctor(1, raises)
    \/ \E raises \in BOOLEAN : create_appointment_push(1, raises)
    \/ BookingInFlight = {} /\ InFlight = {} /\ Tick

SpecBooking == Init /\ [][NextBooking]_vars

\* the update route of app/api/patients.py over a storage that may fail, for
\* patients registered and deactivated meanwhile
NextPut ==
    \/ \E req \in RecordRequests : create_patient_validate(1, req)
    \/ create_patient_find(1, FALSE)
    \/ create_patient_generate(1, FALSE)
    \/ create_patient_insert(1, FALSE)
    \/ InFlight = {} /\ \E id \in PatientIdInputs : deactivate_patient(id)
    \/ InFlight = {} /\ \E id \in PatientIdInputs : \E u \in UpdateInputs :
                            put_update_patient(id, u)

SpecPut == Init /\ [][NextPut]_vars

\* appointments booked one request at a time, over a storage that works, as
\* the seconds and the days pass
NextIds ==
    \/ response = None /\ BookingInFlight = {} /\
          \E req \in BookingRequests : create_patient_validate(1, req)
    \/ create_patient_find(1, FALSE)
    \/ create_patient_generate(1, FALSE)
    \/ create_patient_insert(1, FALSE)
    \/ InFlight = {} /\ \E req \in StaffedRequests : create_appointment_find(1, req, FALSE)
    \/ create_appointment_insert(1, FALSE)
    \/ create_appointment_doctor(1, FALSE)
    \/ create_appointment_push(1, FALSE)
    \/ InFlight = {} /\ \E id \in AppointmentIdInputs : cancel_appointments_find(1, id, FALSE)
    \/ cancel_appointments_delete(1, FALSE)
    \/ BookingInFlight = {} /\ InFlight = {} /\ Tick
    \/ BookingInFlight = {} /\ InFlight = {} /\ NextDay

SpecIds == Init /\ [][NextIds]_vars

\* the PUT and the status route of app/api/appointments.py, one request at a
\* time and one appointment at a time over a storage that works
NextUpdate ==
    \/ response = None /\ BookingInFlight = {} /\
          \E req \in BookingRequests : create_patient_validate(1, req)
    \/ create_patient_find(1, FALSE)
    \/ create_patient_generate(1, FALSE)
    \/ create_patient_insert(1, FALSE)
    \/ InFlight = {} /\ appointments = << >> /\
          \E req \in StaffedRequests : create_appointment_find(1, req, FALSE)
    \/ create_appointment_insert(1, FALSE)
    \/ create_appointment_doctor(1, FALSE)
    \/ create_appointment_push(1, FALSE)
    \/ InFlight = {} /\ \E id \in AppointmentIdInputs : \E body \in PutBodies :
          update_appointment_find(1, id, body, FALSE)
    \/ update_appointment_write(1, FALSE)
    \/ update_appointment_refetch(1, FALSE)
    \/ update_appointment_log(1, FALSE)
    \/ InFlight = {} /\ \E id \in AppointmentIdInputs : \E st \in StatusInputs :
          \E reason \in ReasonInputs :
             update_appointment_status_find(1, id, st, reason, FALSE)
    \/ update_appointment_status_write(1, FALSE)
    \/ update_appointment_status_log(1, FALSE)

SpecUpdate == Init /\ [][NextUpdate]_vars

\* the routes that change the status of an appointment, served by workers
\* that take their storage round trips in any order, over a storage that
\* works, for one appointment booked beforehand
NextStatus ==
    \/ response = None /\ BookingInFlight = {} /\
          \E req \in BookingRequests : create_patient_validate(1, req)
    \/ create_patient_find(1, FALSE)
    \/ create_patient_generate(1, FALSE)
    \/ create_patient_insert(1, FALSE)
    \/ InFlight = {} /\ BookingInFlight = {} /\ appointments = << >> /\
          \E req \in StaffedRequests : create_appointment_find(1, req, FALSE)
    \/ create_appointment_insert(1, FALSE)
    \/ create_appointment_doctor(1, FALSE)
    \/ create_appointment_push(1, FALSE)
    \/ \E p \in Procs : \E id \in AppointmentIdInputs : \E st \in StatusInputs :
          update_appointment_status_find(p, id, st, "patient unwell", FALSE)
    \/ \E p \in Procs : update_appointment_status_write(p, FALSE)
    \/ \E p \in Procs : update_appointment_status_log(p, FALSE)
    \/ \E p \in Procs : \E data \in RescheduleRequests : reschedule_find(p, data, FALSE)
    \/ \E p \in Procs : reschedule_update(p, FALSE)
    \/ \E p \in Procs : \E data \in EditRequests : edit_appointment_find(p, data, FALSE)
    \/ \E p \in Procs : edit_appointment_write(p, FALSE)

SpecStatus == Init /\ [][NextStatus]_vars

\* scheduled callbacks, executed by workers that take their storage round
\* trips in any order; the storage writes succeed. The callbacks are
\* scheduled first, and the minutes pass between requests until the first
\* call is started
NextCallbacks ==
    \/ /\ clock = 0
       /\ \E t \in CallbackTimeInputs : schedule_healthcare_callback(TRUE, t, "none")
    \/ \E p \in Procs : \E id \in CallbackIdInputs : \E tz_aware \in BOOLEAN :
          execute_callback_find(p, id, tz_aware, FALSE)
    \/ \E p \in Procs : execute_callback_update(p, FALSE)
    \/ \E k \in 1..Len(tasks) : \E outcome \in CallOutcomes :
          execute_healthcare_callback(k, outcome, "succeed")
    \/ launched = << >> /\ (\A p \in Procs : apc[p] = "idle") /\ Minute

SpecCallbacks == Init /\ [][NextCallbacks]_vars

\* one user registers and resets the password by one-time passwords; the
\* routes are plain functions, which the server runs on threads, so a reset
\* is taken in two steps that other requests come between
NextAuth ==
    \/ register_user("asha@clinic.example", "first-secret")
    \/ \E email \in EmailInputs : \E otp \in OtpInputs : send_otp(email, otp)
    \/ \E p \in Procs : \E data \in ResetInputs : reset_password_otp_check(p, data)
    \/ \E p \in Procs : reset_password_otp_update(p)
    \/ Minute

SpecAuth == Init /\ [][NextAuth]_vars

----------------------------------------------------------------------------
(* What the claims speak of, in their own terms *)

\* the last ten digits of a contact number, separators and prefix set aside
last_ten_digits(contact) ==
    LET IsDigit(c) == c \in Digits
    IN  last_chars(SelectSeq(contact, IsDigit), 10)

\* doc is an active record of the individual the request describes
SamePerson(doc, req) ==
    /\ doc.is_active = TRUE
    /\ last_ten_digits(doc.contact_number) = last_ten_digits(req.contactNumber)
    /\ lower(doc.full_name) = lower(req.fullName)
    /\ doc.date_of_birth = req.dateOfBirth

\* doc is an active record sharing the request's contact number, of somebody
\* with another name or another date of birth
FamilyMember(doc, req) ==
    /\ doc.is_active = TRUE
    /\ last_ten_digits(doc.contact_number) = last_ten_digits(req.contactNumber)
    /\ \/ lower(doc.full_name) # lower(req.fullName)
       \/ doc.date_of_birth # req.dateOfBirth

\* worker p's call takes the step that leaves `at`
Leaves(p, at) == pc[p] = at /\ pc'[p] # at

----------------------------------------------------------------------------
(* C1 *)

\* C1: when the store holds an active record of the same individual (same
\* last ten contact digits, same name ignoring case, same date of birth) and
\* the duplicate query does not raise, create_patient answers exact_match
\* with that record's patient_id, inserts nothing and draws no identifier.
C1_ExactMatchRejected ==
    [][\A p \in Procs :
         (Leaves(p, "find")
            /\ \E i \in 1..Len(patients) : SamePerson(patients[i], call[p].req))
         => \/ pc'[p] = "generate" /\ call'[p].find_raised
            \/ /\ pc'[p] = "idle"
               /\ \E i \in 1..Len(patients) :
                     /\ SamePerson(patients[i], call[p].req)
                     /\ returned' = duplicate_response(patients[i])
               /\ patients' = patients
               /\ counters' = counters]_vars

----------------------------------------------------------------------------
(* C2 *)

\* the record create_patient inserts for a request
InsertedFor(req, patient_id) ==
    [patient_id |-> patient_id, full_name |-> req.fullName,
     contact_number |-> req.contactNumber, date_of_birth |-> req.dateOfBirth,
     gender |-> req.gender, locality |-> req.locality, is_active |-> TRUE,
     created_by |-> "Bot"]

\* the store holds a family member of the request's patient
HasFamilyMember(p) ==
    /\ pc[p] \in {"find", "generate", "insert"}
    /\ \E i \in 1..Len(patients) : FamilyMember(patients[i], call[p].req)

\* no active record carries the request's name (case ignored) and date of birth
NoNamesake(p) ==
    \A i \in 1..Len(patients) :
        patients[i].is_active = TRUE =>
            \/ lower(patients[i].full_name) # lower(call[p].req.fullName)
            \/ patients[i].date_of_birth # call[p].req.dateOfBirth

----------------------------------------------------------------------------
(* C7 *)

\* C7: a duplicate query that raises yields None inside create_patient, and
\* the call goes on to generate an identifier and to insert: the duplicate
\* check ends a call only with an exact_match answer naming a stored record,
\* never with a failure.
C7_FailOpen ==
    [][\A p \in Procs :
         /\ Leaves(p, "find") =>
               \/ /\ pc'[p] = "generate"
                  /\ call'[p].find_raised => call'[p].existing = None
               \/ /\ pc'[p] = "idle"
                  /\ \E i \in 1..Len(patients) : returned' = duplicate_response(patients[i])
         /\ (Leaves(p, "generate") /\ call[p].find_raised) =>
               pc'[p] = "insert" /\ call'[p].patient_id # NoneStr
         /\ (Leaves(p, "insert") /\ call[p].find_raised) =>
               \/ patients' = Append(patients, InsertedFor(call[p].req, call[p].patient_id))
               \/ returned' = error_response("Failed to create patient")]_vars

\* the duplicate query raised while the store held the same individual, and
\* the call is about to insert
C7_Witness ==
    \E p \in Procs :
        /\ pc[p] = "insert"
        /\ call[p].find_raised
        /\ \E i \in 1..Len(patients) : SamePerson(patients[i], call[p].req)

----------------------------------------------------------------------------
(* C3 *)

\* C3: no lookup returns an inactive record: neither find_existing_patient
\* (from the search route, by any branch, or inside create_patient) nor
\* get_patient_by_id hands back a record whose is_active flag is false.
C3_NeverInactive ==
    /\ lastFind # None =>
          (lastFind.result # None => lastFind.result.is_active = TRUE)
    /\ \A p \in Procs :
          call[p].existing # None => call[p].existing.is_active = TRUE

\* a lookup that reached the store answered None although a deactivated
\* record satisfies its filter
C3_Witness ==
    /\ lastFind # None
    /\ lastFind.issued = 1
    /\ ~lastFind.raised
    /\ lastFind.result = None
    /\ \E i \in 1..Len(patients) :
          /\ patients[i].is_active = FALSE
          /\ condition_holds(patients[i], query_conditions(lastFind.query)[1])

----------------------------------------------------------------------------
(* C4 *)

\* a criterion is supplied: not None and not blank
Provided(x) == x # NoneStr /\ strip(x) # <<>>

\* the filter C4 gives the resolver: the first of patient_id, contact and
\* name, contact, name that is supplied
C4_Filter(doc, q) ==
    LET last10 == last_chars(digits_and_plus(q.contact_number), 10)
    IN  IF Provided(q.patient_id) THEN doc.patient_id = strip(q.patient_id)
        ELSE IF Provided(q.contact_number) /\ Provided(q.full_name)
        THEN /\ contact_regex(doc.contact_number, last10)
             /\ name_regex(doc.full_name, strip(q.full_name))
        ELSE IF Provided(q.contact_number)
        THEN contact_regex(doc.contact_number, last10)
        ELSE Provided(q.full_name) /\ name_regex(doc.full_name, strip(q.full_name))

\* C4: find_existing_patient issues exactly one storage query when a
\* patient_id, a contact number or a full name is supplied and none only when
\* none of them is; the query filters by the first branch satisfied, in the
\* order patient_id, contact with name, contact alone, name alone, so that an
\* active record satisfying that filter is returned when there is one.
C4_OneQueryPerCriterion ==
    (lastFind # None /\ lastFind.op = "find_existing_patient") =>
        LET q == lastFind.query
            supplied == Provided(q.patient_id) \/ Provided(q.contact_number)
                        \/ Provided(q.full_name)
            hits == {i \in 1..Len(patients) :
                        patients[i].is_active = TRUE /\ C4_Filter(patients[i], q)}
        IN  /\ lastFind.issued = (IF supplied THEN 1 ELSE 0)
            /\ ~lastFind.raised =>
                  IF hits = {} THEN lastFind.result = None
                  ELSE \E i \in hits : lastFind.result = patients[i]

----------------------------------------------------------------------------
(* C8 *)

\* the spellings of one contact number: local, with +91, with 91
PhoneForms == {PhoneLocal, PhonePlus91, Phone91}

\* the digits of a number written as digits with, at most, one leading "+"
national(contact) ==
    IF contact # <<>> /\ Head(contact) = "+" THEN Tail(contact) ELSE contact

\* two numbers of ten digits or more that differ only by a leading
\* country-code prefix
DiffersByPrefix(a, b) ==
    /\ \A i \in 1..Len(national(a)) : national(a)[i] \in Digits
    /\ \A i \in 1..Len(national(b)) : national(b)[i] \in Digits
    /\ Len(national(a)) >= 10 /\ Len(national(b)) >= 10
    /\ \/ endswith(national(a), national(b))
       \/ endswith(national(b), national(a))

\* doc is what find_existing_patient may return for the contact number alone
found_by_contact(doc, contact) ==
    query_matches(doc, query_conditions(Query(NoneStr, contact, NoneStr)))

\* C8: contact numbers of ten digits or more that differ only by a leading
\* country-code prefix are one number to find_existing_patient: a stored
\* active patient is found with one spelling exactly when it is found with
\* the other, and a patient stored under one spelling is found with every
\* other; a lookup by such a number answers None only when no active patient
\* is stored under a spelling of it.
C8_PrefixInsensitive ==
    /\ \A i \in 1..Len(patients) : \A a, b \in PhoneForms :
          DiffersByPrefix(a, b) =>
             (found_by_contact(patients[i], a) <=> found_by_contact(patients[i], b))
    /\ \A i \in 1..Len(patients) : \A a \in PhoneForms :
          (patients[i].is_active = TRUE /\ DiffersByPrefix(patients[i].contact_number, a))
             => found_by_contact(patients[i], a)
    /\ (/\ lastFind # None
        /\ lastFind.op = "find_existing_patient"
        /\ ~lastFind.raised
        /\ lastFind.query.patient_id = NoneStr
        /\ lastFind.query.full_name = NoneStr
        /\ lastFind.query.contact_number \in PhoneForms)
       => (lastFind.result # None <=>
              \E i \in 1..Len(patients) :
                 /\ patients[i].is_active = TRUE
                 /\ DiffersByPrefix(patients[i].contact_number,
                                    lastFind.query.contact_number))

\* a lookup by one spelling of the number returned the patient stored under
\* another spelling
C8_Witness ==
    /\ lastFind # None
    /\ lastFind.op = "find_existing_patient"
    /\ lastFind.query.patient_id = NoneStr
    /\ lastFind.query.full_name = NoneStr
    /\ lastFind.result # None
    /\ lastFind.result.contact_number # lastFind.query.contact_number
    /\ DiffersByPrefix(lastFind.result.contact_number, lastFind.query.contact_number)

----------------------------------------------------------------------------
(* C9 *)

\* the spellings of one name: as is, in lower case, with a leading blank
NameForms == {NameAsha, NameAshaLower, NameAshaPadded}

\* two names that differ only by letter case or surrounding whitespace
SameName(a, b) == lower(strip(a)) = lower(strip(b))

\* doc is what find_existing_patient may return for the name alone
found_by_name(doc, name) ==
    query_matches(doc, query_conditions(Query(NoneStr, NoneStr, name)))

\* C9: full names that differ only by letter case or by surrounding whitespace
\* are one name to find_existing_patient, on the stored side as on the
\* queried side: a stored active patient is matched by one spelling exactly
\* when it is matched by the other, and a patient stored under one spelling
\* is matched by every other.
C9_NameSpellingInsensitive ==
    /\ \A i \in 1..Len(patients) : \A a, b \in NameForms :
          SameName(a, b) =>
             (found_by_name(patients[i], a) <=> found_by_name(patients[i], b))
    /\ \A i \in 1..Len(patients) : \A a \in NameForms :
          (patients[i].is_active = TRUE /\ SameName(patients[i].full_name, a))
             => found_by_name(patients[i], a)

----------------------------------------------------------------------------
(* C5 *)

\* the identifier comes from the timestamp fallback: PAT-<YYMMDD>-T<HHMMSS>
IsFallbackId(patient_id) == Len(patient_id) >= 12 /\ patient_id[12] = "T"

\* C5 as stated: whatever the interleaving of create_patient calls and
\* whichever path the identifiers come from, no two patient records carry the
\* same patient_id.
C5_AllIdsDistinct ==
    \A i, j \in 1..Len(patients) :
        i # j => patients[i].patient_id # patients[j].patient_id

\* C5, amended: two patient records carry the same patient_id only when both
\* identifiers come from the timestamp fallback; an identifier from the
\* atomic daily counter is carried by one record only, and by none while the
\* call it was issued to is in flight.
C5_IdsDistinctUnlessFallback ==
    /\ \A i, j \in 1..Len(patients) :
          (i # j /\ patients[i].patient_id = patients[j].patient_id)
             => IsFallbackId(patients[i].patient_id)
    /\ \A p \in Procs : \A i \in 1..Len(patients) :
          (pc[p] = "insert" /\ call[p].id_path = "atomic")
             => patients[i].patient_id # call[p].patient_id

\* two records registered on one day carry two identifiers of the atomic
\* counter
C5_Witness ==
    \E i, j \in 1..Len(patients) :
        /\ i # j
        /\ ~IsFallbackId(patients[i].patient_id)
        /\ ~IsFallbackId(patients[j].patient_id)
        /\ SubSeq(patients[i].patient_id, 1, 11) = SubSeq(patients[j].patient_id, 1, 11)
        /\ patients[i].patient_id # patients[j].patient_id

----------------------------------------------------------------------------
(* C6 *)

\* the sequence numbers the atomic counter has returned on a day
issued_on(day) == {issued[i][2] : i \in {k \in 1..Len(issued) : issued[k][1] = day}}

\* C6: the atomic counter never returns one sequence number twice on a day,
\* to concurrent calls or otherwise: each call gets the value the counter
\* holds after its own increment, so the numbers returned on a day are
\* 1, 2, ... up to the counter, each once; the counter document of a day
\* exists from the first call of that day on.
C6_AtomicSequence ==
    /\ \A i, j \in 1..Len(issued) : i # j => issued[i] # issued[j]
    /\ \A i \in 1..Len(issued) :
          /\ issued[i][1] \in DOMAIN counters
          /\ issued[i][2] =
                Cardinality({k \in 1..i : issued[k][1] = issued[i][1]})
    /\ \A day \in DOMAIN counters : issued_on(day) = 1..counters[day]
    /\ \A p, q \in Procs :
          (/\ p # q
           /\ pc[p] = "insert" /\ call[p].id_path = "atomic"
           /\ pc[q] = "insert" /\ call[q].id_path = "atomic")
          => call[p].patient_id # call[q].patient_id

\* two calls are in flight at once, each holding an identifier the atomic
\* counter issued on the same day
C6_Witness ==
    /\ \A p \in Procs : pc[p] = "insert" /\ call[p].id_path = "atomic"
    /\ Len(issued) >= 2
    /\ issued[Len(issued)][1] = issued[Len(issued) - 1][1]

----------------------------------------------------------------------------
(* C10 *)

\* C10: a patient record keeps the patient_id it was created with, whatever
\* update_data PatientService.update_patient or the healthcare update route
\* is given, and through deactivate_patient.
C10_PatientIdImmutable ==
    \A i \in 1..Len(patients) : patients[i].patient_id = assigned[i]

----------------------------------------------------------------------------
(* C11 *)

\* the step is a deactivate_patient call that found its record
Deactivates(i) ==
    /\ i \in 1..Len(patients)
    /\ patients[i].is_active = TRUE
    /\ patients'[i].is_active = FALSE
    /\ \E id \in PatientIdInputs : deactivate_patient(id)

\* C11: no operation removes a patient record: every record ever inserted
\* keeps its place in db.patients through every create, update and
\* deactivate step, and a deactivate_patient step changes nothing but the
\* is_active flag of the one record it finds.
C11_NeverHardDeleted ==
    [][/\ Len(patients') >= Len(patients)
       /\ Len(patients') = Len(assigned')
       /\ SubSeq(assigned', 1, Len(assigned)) = assigned
       /\ \A i \in 1..Len(patients) :
             Deactivates(i) =>
                patients' = [patients EXCEPT ![i].is_active = FALSE]]_vars

\* a deactivated record is still in db.patients, next to none removed
C11_Witness ==
    /\ Len(patients) = MaxPatients
    /\ Len(assigned) = MaxPatients
    /\ \E i \in 1..Len(patients) : patients[i].is_active = FALSE

----------------------------------------------------------------------------
(* C12 *)

\* the step is a call of one of the two update routes
UpdateStep ==
    \E id \in PatientIdInputs : \E u \in UpdateInputs :
        update_patient(id, u) \/ healthcare_update_patient(id, u)

\* C12: a record is inserted active, its is_active flag changes only from
\* true to false and only by deactivate_patient finding that record, and no
\* call of PatientService.update_patient or of the healthcare update route
\* changes the flag of any record.
C12_ActiveUntilDeactivated ==
    [][/\ \A i \in 1..Len(patients') :
             i > Len(patients) => patients'[i].is_active = TRUE
       /\ \A i \in 1..Len(patients) :
             patients'[i].is_active # patients[i].is_active => Deactivates(i)
       /\ UpdateStep =>
             \A i \in 1..Len(patients) :
                patients'[i].is_active = patients[i].is_active]_vars

----------------------------------------------------------------------------
(* C13 *)

\* a contact number in normalized form: a leading "+", the country code and
\* the number, digits only
IsNormalized(contact) ==
    /\ Len(contact) > MinContactLen
    /\ Head(contact) = "+"
    /\ \A i \in 2..Len(contact) : contact[i] \in Digits

\* C13: every record create_patient inserts stores its contact number in
\* normalized form, country-code-prefixed and digits only after the leading
\* "+", whatever separators or prefix the request used.
C13_ContactStoredNormalized ==
    \A i \in 1..Len(patients) : IsNormalized(patients[i].contact_number)

----------------------------------------------------------------------------
(* C14 *)

\* the identifier worker p's call has after the step
Generated(p) == call'[p].patient_id

\* C14: generate_patient_id always hands create_patient an identifier: the
\* call goes on to the insert whether or not the counter raised.  When it
\* raised the identifier is PAT-<YYMMDD>-T<HHMMSS> of the moment, which the
\* fallback returns at no other second of that day and which no value of the
\* counter yields on any day, so it differs from every counter-based
\* identifier assigned or in flight.
C14_FallbackIdentifier ==
    [][\A p \in Procs :
         Leaves(p, "generate") =>
            /\ pc'[p] = "insert"
            /\ Generated(p) # NoneStr
            /\ call'[p].id_path = "fallback" =>
                  /\ IsFallbackId(Generated(p))
                  /\ SubSeq(Generated(p), 5, 10) = strftime_ymd(now.day)
                  /\ SubSeq(Generated(p), 13, 18) = strftime_hms(now.sec)
                  /\ \A sec \in 0..MaxSec :
                        sec # now.sec => fallback_patient_id(now.day, sec) # Generated(p)
                  /\ \A day \in 0..MaxDay : \A seq \in 1..MaxSeq :
                        atomic_patient_id(day, seq) # Generated(p)
                  /\ \A i \in 1..Len(assigned) :
                        ~IsFallbackId(assigned[i]) => assigned[i] # Generated(p)
                  /\ \A q \in Procs :
                        (pc[q] = "insert" /\ call[q].id_path = "atomic")
                           => call[q].patient_id # Generated(p)]_vars

\* a call holds a fallback identifier while a record carries the fallback
\* identifier of another second of the same day
C14_Witness ==
    \E p \in Procs : \E i \in 1..Len(patients) :
        /\ pc[p] = "insert"
        /\ call[p].id_path = "fallback"
        /\ IsFallbackId(patients[i].patient_id)
        /\ SubSeq(patients[i].patient_id, 1, 11) = SubSeq(call[p].patient_id, 1, 11)
        /\ patients[i].patient_id # call[p].patient_id

----------------------------------------------------------------------------
(* C15 *)

\* C15: the status of every appointment record is one of scheduled,
\* confirmed, cancelled, completed, rescheduled: create_appointment writes
\* scheduled, reschedule_appointments writes rescheduled, and the PUT, the
\* PATCH .../status and the PATCH /edit routes write only what their
\* Literal types let through.
C15_StatusEnumerated ==
    \A i \in 1..Len(appointments) : appointments[i].status \in Statuses

\* the status route has answered 200 and a record carries the status it
\* wrote over the scheduled of its creation
C15_Witness ==
    /\ response = HttpResponse(200, "Appointment status updated")
    /\ \E i \in 1..Len(appointments) :
          /\ appointments[i].status = "cancelled"
          /\ appointments[i].cancellation_reason = "patient unwell"

----------------------------------------------------------------------------
(* C16 *)

\* the appointment_id of the request worker p is serving
Concerns(p) == acall[p].appointment_id

\* C16: the appointment history is append-only: no step of any appointment
\* route (create, update, status change, reschedule, edit, delete) removes or
\* changes an entry written earlier; a step leaves the history alone or adds
\* one entry at its end, and the entry added carries the appointment_id of
\* the request that wrote it.
C16_HistoryAppendOnly ==
    [][/\ Len(history') >= Len(history)
       /\ SubSeq(history', 1, Len(history)) = history
       /\ history' # history =>
             /\ Len(history') = Len(history) + 1
             /\ \E p \in Procs :
                   /\ apc[p] \in {"update_log", "status_log"}
                   /\ apc'[p] = "idle"
                   /\ history'[Len(history')].appointment_id = Concerns(p)]_vars

\* the appointment of the first entry was changed again and then deleted, and
\* the history holds both entries in the order they were written
C16_Witness ==
    /\ Len(history) = 2
    /\ history[1].action = "updated"
    /\ history[2].action = "status_changed"
    /\ history[2].appointment_id = history[1].appointment_id
    /\ appointments = <<>>
    /\ response = HttpResponse(200, "Appointment cancelled successfully")

----------------------------------------------------------------------------
(* C17 *)

\* two records describe one individual: the same last 10 contact digits, the
\* same full name ignoring case and the same date_of_birth
SameIndividual(a, b) ==
    /\ last_ten_digits(a.contact_number) = last_ten_digits(b.contact_number)
    /\ lower(a.full_name) = lower(b.full_name)
    /\ a.date_of_birth = b.date_of_birth

\* C17: under any interleaving of concurrent create_patient calls over a
\* storage that works, no two active patient records describe the same
\* individual: of several concurrent registrations of one individual at most
\* one inserts a record.
C17_OneRecordPerIndividual ==
    \A i, j \in 1..Len(patients) :
        (i # j /\ patients[i].is_active = TRUE /\ patients[j].is_active = TRUE)
           => ~SameIndividual(patients[i], patients[j])

----------------------------------------------------------------------------
(* C18 *)

\* worker p's duplicate check found a record and the call goes on to create
FoundAndCreates(p) ==
    /\ Leaves(p, "find")
    /\ pc'[p] = "generate"
    /\ call'[p].existing # None

\* C18: the name comparison that classifies agrees with the name match that
\* found the record: whenever the contact+name lookup of create_patient
\* returns a patient whose date_of_birth equals the request's, the request is
\* classified exact_match and rejected, so a call that goes on to create
\* after finding a record found one with another date of birth.
C18_ClassifierAgreesWithResolver ==
    [][\A p \in Procs :
         FoundAndCreates(p) =>
            call'[p].existing.date_of_birth # call[p].req.dateOfBirth]_vars

----------------------------------------------------------------------------
(* C19 *)

\* the step is a request to PUT /patients/{patient_id}: it answers with what
\* PatientService.update_patient returned on record, no registration moving
PutStep ==
    /\ pc' = pc
    /\ "error" \in DOMAIN returned' \/ "modified_count" \in DOMAIN returned'
    /\ response' # None

\* C19: PUT /patients/{patient_id} answers 404 "Patient not found" whenever
\* the service did not update a patient (no active patient with that id,
\* empty update data, a storage failure), and answers "Patient updated
\* successfully" only when PatientService.update_patient modified the record.
C19_PutReportsOutcome ==
    [][PutStep =>
         /\ returned'.success = FALSE =>
                response' = HttpResponse(404, "Patient not found")
         /\ response' = HttpResponse(200, "Patient updated successfully") =>
                returned'.success = TRUE]_vars

----------------------------------------------------------------------------
(* C20 *)

\* some patient record carries the patient_id
HasRecord(ps, patient_id) == \E i \in 1..Len(ps) : ps[i].patient_id = patient_id

\* C20: POST /healthcare/appointments/create for a patient_id that no patient
\* record carries answers 404 "Patient not found" and inserts nothing (the
\* storage working); every appointment stored is that of a patient on record.
C20_MissingPatientNotFound ==
    [][/\ \A p \in Procs : \A req \in AppointmentRequests :
             (create_appointment_find(p, req, FALSE) /\ ~HasRecord(patients, req.patient_id))
                => /\ response' = HttpResponse(404, "Patient not found")
                   /\ appointments' = appointments
       /\ \A i \in 1..Len(appointments') :
             HasRecord(patients', appointments'[i].patient_id)]_vars

----------------------------------------------------------------------------
(* C21 *)

\* worker p's create_appointment request is answered in this step
CreateAnswered(p) ==
    /\ apc[p] \in {"create_insert", "create_doctor", "create_push"}
    /\ apc'[p] = "idle"

\* doc is the record the request of worker p inserted
Inserted(p, doc) ==
    /\ doc.appointment_id = acall[p].appointment_id
    /\ doc.patient_id = acall[p].req.patient_id
    /\ doc.doctor_id = acall[p].req.doctorId

\* C21: POST /healthcare/appointments/create is all-or-nothing: a request
\* that is not answered with success has added no appointment record, and
\* one answered with success has its record stored with status scheduled and
\* its reference appended to the patient's appointments list.
C21_AllOrNothing ==
    [][\A p \in Procs :
         CreateAnswered(p) =>
            IF response' = HttpResponse(200, "Appointment scheduled successfully")
            THEN /\ \E i \in 1..Len(appointments') :
                       /\ Inserted(p, appointments'[i])
                       /\ appointments'[i].status = "scheduled"
                 /\ Len(pushed') = Len(pushed) + 1
                 /\ pushed'[Len(pushed')] =
                       [patient_id |-> acall[p].req.patient_id,
                        appointment_id |-> acall[p].appointment_id]
            ELSE \A i \in 1..Len(appointments') : ~Inserted(p, appointments'[i])]_vars

----------------------------------------------------------------------------
(* C22 *)

\* C22: two appointments created by POST /healthcare/appointments/create at
\* different instants carry different appointment_id values, so that an
\* appointment_id names one record and a reschedule, a status update or a
\* delete by appointment_id reaches the appointment meant.
C22_IdsDifferAcrossInstants ==
    \A i, j \in 1..Len(appointments) :
        appointments[i].created_at # appointments[j].created_at
           => appointments[i].appointment_id # appointments[j].appointment_id

----------------------------------------------------------------------------
(* C23 *)

\* the appointment carries a cancellation reason
HasReason(doc) == doc.cancellation_reason \notin {"None", ""}

\* C23: PATCH /appointments/{id}/status with status cancelled and no reason
\* is answered 400 and changes neither the appointments nor the history, and
\* whatever the appointment routes do, every appointment whose status is
\* cancelled carries a non-empty cancellation_reason.
C23_CancelledHasReason ==
    [][/\ \A p \in Procs : \A id \in AppointmentIdInputs : \A reason \in {"None", ""} :
             update_appointment_status_find(p, id, "cancelled", reason, FALSE)
                => /\ response' = HttpResponse(400,
                          "Cancellation reason is required when cancelling an appointment")
                   /\ appointments' = appointments
                   /\ history' = history
       /\ \A i \in 1..Len(appointments') :
             appointments'[i].status = "cancelled" => HasReason(appointments'[i])]_vars

----------------------------------------------------------------------------
(* C25 *)

\* the body of a PUT /appointments/{appointment_id} that provides no field
NoFieldBody == [status |-> "None", preferred_date |-> "None"]

\* worker p is serving a PUT request whose body provided no field
ServesNoField(p) ==
    /\ apc[p] \in {"update_write", "update_refetch", "update_log"}
    /\ DOMAIN acall[p].update_fields \subseteq {"updated_at", "updated_by"}

\* C25: PUT /appointments/{appointment_id} with a body that provides no
\* field (or only nulls) is answered 400 "No valid fields provided for
\* update" for an appointment on record, and changes neither the appointment
\* nor the history.
C25_NoFieldsRejected ==
    [][\A p \in Procs :
         /\ \A id \in AppointmentIdInputs :
               (/\ find_appointment(appointments, id) # {}
                /\ update_appointment_find(p, id, NoFieldBody, FALSE))
                  => response' = HttpResponse(400, "No valid fields provided for update")
         /\ ServesNoField(p) =>
               /\ appointments' = appointments
               /\ history' = history
               /\ apc'[p] = "idle" =>
                     response' = HttpResponse(400, "No valid fields provided for update")]_vars

----------------------------------------------------------------------------
(* C24 *)

\* the status_changed entries of an appointment, in insertion order
StatusChain(log, appointment_id) ==
    LET concerns(e) == e.action = "status_changed" /\ e.appointment_id = appointment_id
    IN  SelectSeq(log, concerns)

\* worker p's status request writes the appointment in this step
WritesStatus(p) == apc[p] = "status_write" /\ apc'[p] = "status_log"

\* C24: under any interleaving of status-changing requests the
\* status_changed entries of an appointment form a chain: an entry's
\* old_status is the status the appointment held just before the change was
\* applied, it equals the new_status of the entry before it, and once the
\* requests have been served the new_status of the latest entry is the
\* appointment's status.
C24_StatusChain ==
    [][/\ \A p \in Procs :
             WritesStatus(p) =>
                \A i \in 1..Len(appointments) :
                    appointments'[i] # appointments[i]
                       => acall[p].old_status = appointments[i].status
       /\ \A i \in 1..Len(appointments') :
             LET chain == StatusChain(history', appointments'[i].appointment_id)
             IN  /\ \A k \in 1..(Len(chain) - 1) :
                       chain[k + 1].old_status = chain[k].new_status
                 /\ (BookingInFlight' = {} /\ chain # << >>)
                       => appointments'[i].status = chain[Len(chain)].new_status]_vars

----------------------------------------------------------------------------
(* C26 *)

\* the moves of a callback's status along scheduled, executing, then
\* completed or failed
Forward ==
    { <<"scheduled", "executing">>, <<"executing", "completed">>,
      <<"executing", "failed">> }

\* worker p's execute request passes the checks in this step
Proceeds(p) == apc[p] = "idle" /\ apc'[p] = "execute_update"

\* worker p's execute request is rejected in this step
Rejected(p) ==
    /\ apc[p] \in {"idle", "execute_update"}
    /\ apc'[p] = "idle"
    /\ response' = execute_failed
    /\ clock' = clock
    /\ tasks' = tasks

\* C26: a callback is created with status scheduled and its status only
\* moves forward along scheduled, executing, then completed or failed;
\* execute_callback proceeds only for a callback whose stored status is
\* scheduled and whose time is at most 5 minutes ahead, and a request it
\* rejects leaves the callbacks unchanged and starts no call.
C26_StatusMovesForward ==
    [][/\ \A i \in 1..Len(callbacks') :
             IF i > Len(callbacks)
             THEN callbacks'[i].status = "scheduled"
             ELSE \/ callbacks'[i].status = callbacks[i].status
                  \/ <<callbacks[i].status, callbacks'[i].status>> \in Forward
       /\ \A p \in Procs :
             Proceeds(p) =>
                /\ callbacks[acall'[p].callback_id].status = "scheduled"
                /\ callbacks[acall'[p].callback_id].callback_time <= clock + DueMinutes
       /\ \A p \in Procs :
             Rejected(p) => callbacks' = callbacks /\ launched' = launched]_vars

----------------------------------------------------------------------------
(* C27 *)

\* the number of background calls started for a callback
Launches(callback_id) ==
    Cardinality({k \in 1..Len(launched) : launched[k] = callback_id})

\* C27: whatever the interleaving of the execute requests on a scheduled
\* callback, at most one of them starts the background call: no callback
\* is executed more than once.
C27_ExecutedAtMostOnce ==
    \A i \in 1..Len(callbacks) : Launches(i) <= 1

----------------------------------------------------------------------------
(* C28 *)

\* the background tasks are run: a task that was added is eventually taken
SpecCallbacksLive ==
    /\ Init
    /\ [][NextCallbacks]_vars
    /\ WF_vars(\E k \in 1..Len(tasks) : \E outcome \in CallOutcomes :
                  execute_healthcare_callback(k, outcome, "succeed"))

\* the k-th pending task runs in this step with the given outcome of the call
TaskRuns(k, outcome) ==
    /\ k \in 1..Len(tasks)
    /\ tasks' = remove_at(tasks, k)
    /\ callbacks' = [callbacks EXCEPT ![tasks[k]].status =
                       IF outcome = "created" THEN "completed" ELSE "failed"]

\* C28: every callback that execute_callback moved to executing reaches
\* completed or failed once its background task runs, completed when the
\* outbound call is created and failed when its creation returns nothing or
\* raises; no callback stays in executing forever.
C28_ExecutingEnds ==
    /\ \A i \in 1..MaxCallbacks :
          (i <= Len(callbacks) /\ callbacks[i].status = "executing")
             ~> (i <= Len(callbacks)
                   /\ callbacks[i].status \in {"completed", "failed"})
    /\ [][(tasks' # tasks /\ Len(tasks') < Len(tasks)) =>
             \E k \in 1..Len(tasks) : \E outcome \in CallOutcomes :
                TaskRuns(k, outcome)]_vars

\* a callback was started once and its call was created
C28_Witness ==
    \E i \in 1..Len(callbacks) :
       /\ callbacks[i].status = "completed"
       /\ Launches(i) = 1
       /\ tasks = << >>

----------------------------------------------------------------------------
(* C29 *)

\* the store holds for the email an entry with this one-time password that
\* has not expired
Redeemable(email, otp) ==
    /\ email \in DOMAIN reset_otp_store
    /\ reset_otp_store[email].otp = otp
    /\ ~(clock > reset_otp_store[email].expires_at)

\* the entry of the email in the store, None when it has none
Entry(store, email) == IF email \in DOMAIN store THEN store[email] ELSE None

\* C29: reset_password_otp changes a user's password only for a request
\* that found in the OTP store an entry for the email whose OTP equals the
\* submitted one and has not expired, the entry being the OTP issued last
\* for the email and expiring 10 minutes after its issue; every other
\* request is answered 400 "Invalid or expired OTP" and leaves the stored
\* passwords and the OTP store unchanged.
C29_ResetNeedsValidOtp ==
    [][/\ \A p \in Procs : \A data \in ResetInputs :
             reset_password_otp_check(p, data) =>
                IF Redeemable(data.email, data.otp)
                THEN apc'[p] = "reset_update" /\ acall'[p] = data
                ELSE /\ response' = HttpResponse(400, "Invalid or expired OTP")
                     /\ apc'[p] = "idle"
                     /\ users' = users
                     /\ reset_otp_store' = reset_otp_store
       /\ \A email \in DOMAIN users :
             users'[email] # users[email] =>
                \E p \in Procs :
                   /\ apc[p] = "reset_update" /\ apc'[p] = "idle"
                   /\ acall[p].email = email
                   /\ users'[email] = [bcrypt |-> acall[p].new_password]
       /\ \A email \in EmailInputs :
             Entry(reset_otp_store', email) # Entry(reset_otp_store, email) =>
                \/ \E otp \in OtpInputs :
                      /\ send_otp(email, otp)
                      /\ Entry(reset_otp_store', email) =
                            [otp |-> otp, expires_at |-> clock + OtpMinutes]
                \/ \E p \in Procs :
                      /\ apc[p] = "reset_update" /\ apc'[p] = "idle"
                      /\ acall[p].email = email
                      /\ Entry(reset_otp_store', email) = None]_vars

\* a password was reset with the one-time password of the store, which the
\* reset consumed
C29_Witness ==
    /\ "asha@clinic.example" \in DOMAIN users
    /\ users["asha@clinic.example"] = [bcrypt |-> "second-secret"]
    /\ "asha@clinic.example" \notin DOMAIN reset_otp_store
    /\ response = HttpResponse(200, "Password reset successful using OTP")
    /\ clock > 0

====
